---- MODULE Spec2Model ----
(***************************************************************************)
(* branchGPT: the conversation store, the agent status, the chat turn of   *)
(* useAgentChat.sendMessage and the conversation-tree helpers.             *)
(*                                                                         *)
(* JavaScript values are modelled as follows.                              *)
(*  - A Map is the sequence of its entries in insertion order; an entry is *)
(*    [key, value]. The value's own fields, its id among them, are what    *)
(*    was stored, whatever the key is.                                     *)
(*  - A message OBJECT lives in `heap` at an address; a conversation's     *)
(*    messages array is a sequence of addresses. Array.prototype.slice and *)
(*    the spread [...xs] copy the array, not the objects, so a branch and  *)
(*    its parent point at the same message objects.                        *)
(*  - ids made by crypto.randomUUID() are fresh: counters that only grow.  *)
(*  - a string is a sequence of one-character strings.                     *)
(*  - undefined for an id is NoId; an optional number is a set with at     *)
(*    most one element.                                                    *)
(***************************************************************************)
EXTENDS Integers, Sequences, FiniteSets, TLC

\* ---------------------------------------------------------------- bounds
MaxOps == 4        \* calls the UI makes and milliseconds that pass in one run
MaxDeltas == 2     \* chunks a provider channel yields in one turn
MaxTreeConvs == 3  \* size of the collection handed to the tree helpers

NoId == 0          \* undefined / null where an id is expected
NoTurn == 0        \* no sendMessage invocation is executing

Turns == {1, 2}
FirstTurn == {1}
Addrs == 1..(2 * MaxOps + 6)

VARIABLES
    conversations,          \* chatStore.conversations: Map<string, Conversation>
    activeConversationId,   \* chatStore.activeConversationId
    heap,                   \* the message objects the conversations point at
    agents,                 \* agentStore.agents: Map<string, Agent>
    turn,                   \* the locals of each sendMessage invocation
    running,                \* the turn executing a synchronous segment, or NoTurn
    now,                    \* Date.now()
    nextConvId, nextMsgId, nextAgentId,   \* the next crypto.randomUUID()
    ops,                    \* operations the UI has made so far
    tree,                   \* the tree helpers' input and loop state
    pendingActions,         \* agentStore.pendingActions: Map<string, AgentAction[]>
    workspaces,             \* workspaceStore.workspaces: Map<string, Workspace>
    activeWorkspaceId,      \* workspaceStore.activeWorkspaceId
    nextWorkspaceId,        \* the next crypto.randomUUID() of createWorkspace
    resolveCalls,           \* history: the calls of resolvePendingAction so far
    hydration,              \* how the last rehydration of the chat store ended ("none": none has)
    storage,                \* IndexedDB: what the key of each store holds
    reads,                  \* the reads of storage that a page load started and
                            \* that have not settled, each with what it will return
    env                     \* import.meta.env: the providers that have an API key

workspaceStore == <<workspaces, activeWorkspaceId, nextWorkspaceId>>

vars == <<conversations, activeConversationId, heap, agents, turn, running, now,
          nextConvId, nextMsgId, nextAgentId, ops, tree, pendingActions, workspaceStore, resolveCalls,
          hydration, storage, reads, env>>

\* ------------------------------------------------------------ JS helpers
Min(a, b) == IF a < b THEN a ELSE b
Max(a, b) == IF a > b THEN a ELSE b

\* Array.prototype.slice(0, end)
SliceTo(s, end) ==
    LET len == Len(s)
        e == IF end < 0 THEN Max(len + end, 0) ELSE Min(end, len)
    IN SubSeq(s, 1, e)

\* Array.prototype.slice(0, -1)
DropLast(s) == SliceTo(s, -1)

\* { ...obj, ...update }
Spread(obj, update) ==
    [f \in DOMAIN obj \cup DOMAIN update |->
        IF f \in DOMAIN update THEN update[f] ELSE obj[f]]

\* the value of a Map entry
EntryValue(e) == e.value

MapHas(m, key) == \E i \in 1..Len(m) : m[i].key = key
MapIndex(m, key) == CHOOSE i \in 1..Len(m) : m[i].key = key
MapGet(m, key) == EntryValue(m[MapIndex(m, key)])
\* new Map(m).set(key, v): an existing key keeps its place, whatever v holds
MapSet(m, key, v) ==
    LET e == [key |-> key, value |-> v]
    IN IF MapHas(m, key) THEN [m EXCEPT ![MapIndex(m, key)] = e] ELSE Append(m, e)
MapDelete(m, key) == SelectSeq(m, LAMBDA e : e.key # key)
MapKeys(m) == {m[i].key : i \in 1..Len(m)}

\* ------------------------------------------------------------- messages
TextBlock(s) == [type |-> "text", text |-> s]
ThinkingBlock(s) == [type |-> "thinking", thinking |-> s]

\* createTextBlock
createTextBlock(text) == [type |-> "text", text |-> text]

\* mergeTextDelta as it would be if the delta replaced the text
mergeTextDeltaReplace(existing, delta) == [type |-> "text", text |-> delta]

\* mergeTextDelta
mergeTextDelta(existing, delta) == [type |-> "text", text |-> existing.text \o delta]

\* createTextMessage: a new message object with a fresh id
createTextMessage(id, role, text, agentId, t) ==
    [id |-> id, role |-> role, agentId |-> agentId,
     content |-> <<[type |-> "text", text |-> text]>>,
     timestamp |-> t, metadata |-> {}]

\* createStreamingMessage as it would be without the streaming flag
createStreamingMessagePlain(messageId, agentId, t) ==
    [id |-> messageId, role |-> "assistant", agentId |-> agentId,
     content |-> <<>>, timestamp |-> t, metadata |-> {}]

\* createStreamingMessage
createStreamingMessage(messageId, agentId, t) ==
    [id |-> messageId, role |-> "assistant", agentId |-> agentId,
     content |-> <<>>, timestamp |-> t,
     metadata |-> {[streaming |-> TRUE]}]

\* ------------------------------------------------------------- the heap
\* the n lowest free addresses, in increasing order
RECURSIVE FreeAddrs(_, _)
FreeAddrs(used, n) ==
    IF n = 0 THEN <<>>
    ELSE LET a == CHOOSE x \in Addrs \ used : \A y \in Addrs \ used : x <= y
         IN <<a>> \o FreeAddrs(used \cup {a}, n - 1)

NewAddr(h) == FreeAddrs(DOMAIN h, 1)[1]

\* h with object o stored at address a
HeapPut(h, a, o) == [x \in DOMAIN h \cup {a} |-> IF x = a THEN o ELSE h[x]]

\* every address the conversations (in Map order) and then the turns point at,
\* in the order of a walk over them
RECURSIVE Walk(_, _)
Walk(convs, i) ==
    IF i > Len(convs) THEN <<>> ELSE convs[i].value.messages \o Walk(convs, i + 1)

RECURSIVE WalkTurns(_, _)
WalkTurns(tn, t) ==
    IF t \notin DOMAIN tn THEN <<>>
    ELSE (IF tn[t].userMessage = {} THEN <<>>
          ELSE <<CHOOSE a \in tn[t].userMessage : TRUE>>) \o WalkTurns(tn, t + 1)

\* occ without its repetitions, each address at its first place
RECURSIVE FirstVisits(_, _, _)
FirstVisits(occ, i, acc) ==
    IF i > Len(occ) THEN acc
    ELSE FirstVisits(occ, i + 1,
            IF \E j \in 1..Len(acc) : acc[j] = occ[i] THEN acc ELSE Append(acc, occ[i]))

\* Objects nothing points at are dropped (garbage collection) and the others are
\* renumbered in the order the walk first meets them: which address an object
\* has is not observable, only which references share it.
Renumbered(cs, tn, order) ==
    LET rn == [a \in {order[n] : n \in 1..Len(order)} |->
                  CHOOSE n \in 1..Len(order) : order[n] = a]
        h == cs.heap
    IN [convs |-> [i \in 1..Len(cs.convs) |->
                     [cs.convs[i] EXCEPT !.value.messages =
                        [j \in 1..Len(@) |-> rn[@[j]]]]],
        heap |-> [n \in 1..Len(order) |-> h[order[n]]],
        turn |-> [t \in DOMAIN tn |->
                     [tn[t] EXCEPT !.userMessage = {rn[x] : x \in @}]]]

\* the walk is made once, order is its value
Collect(cs, tn) ==
    CHOOSE c \in {Renumbered(cs, tn, order) :
                     order \in {FirstVisits(Walk(cs.convs, 1) \o WalkTurns(tn, 1), 1, <<>>)}} : TRUE

\* the messages of a conversation record, as values
Deref(h, msgs) == [i \in 1..Len(msgs) |-> h[msgs[i]]]

\* ------------------------------------------------ chatStore operations
\* Each operation maps the store value cs = [convs, heap] to the next one;
\* t is the value Date.now() returns during the call.

\* parent.messages.slice(0, branchPoint + 1)
BranchMessages(parentMessages, branchPoint) == SliceTo(parentMessages, branchPoint + 1)

\* createConversation: the Conversation object that is stored under id
NewConversation(convs, id, workspaceId, agentId, parentId, branchPoint, t) ==
    LET conversation ==
            [id |-> id, workspaceId |-> workspaceId, agentId |-> agentId,
             messages |-> <<>>, parentId |-> parentId, branchPoint |-> branchPoint,
             title |-> {}, createdAt |-> t, updatedAt |-> t]
    IN IF parentId # NoId /\ branchPoint # {} /\ MapHas(convs, parentId)
       THEN [conversation EXCEPT !.messages =
                BranchMessages(MapGet(convs, parentId).messages,
                               CHOOSE k \in branchPoint : TRUE)]
       ELSE conversation

createConversation(cs, id, workspaceId, agentId, parentId, branchPoint, t) ==
    [cs EXCEPT !.convs = MapSet(@, id,
        NewConversation(cs.convs, id, workspaceId, agentId, parentId, branchPoint, t))]

\* deleteConversation as it would be if it deleted the branches with their parent
deleteConversationCascade(cs, conversationId) ==
    [cs EXCEPT !.convs = SelectSeq(@, LAMBDA e : e.key # conversationId
                                              /\ e.value.parentId # conversationId)]

deleteConversation(cs, conversationId) ==
    [cs EXCEPT !.convs = MapDelete(@, conversationId)]

updateConversationTitle(cs, conversationId, title, t) ==
    IF ~MapHas(cs.convs, conversationId) THEN cs
    ELSE LET conversation == MapGet(cs.convs, conversationId)
         IN [cs EXCEPT !.convs = MapSet(@, conversationId,
                [conversation EXCEPT !.title = {title}, !.updatedAt = t])]

\* addMessage: message is the address of the caller's message object
addMessage(cs, conversationId, message, t) ==
    IF ~MapHas(cs.convs, conversationId) THEN cs
    ELSE LET conversation == MapGet(cs.convs, conversationId)
         IN [cs EXCEPT !.convs = MapSet(@, conversationId,
                [conversation EXCEPT !.messages = Append(@, message),
                                     !.updatedAt = t])]

\* updateMessage as it would be if it assigned the update to the stored message
\* object (Object.assign(msg, update)) and kept the array
updateMessageInPlace(cs, conversationId, messageId, update, t) ==
    IF ~MapHas(cs.convs, conversationId) THEN cs
    ELSE LET conversation == MapGet(cs.convs, conversationId)
             msgs == conversation.messages
             hit == {msgs[i] : i \in {j \in 1..Len(msgs) : cs.heap[msgs[j]].id = messageId}}
         IN [convs |-> MapSet(cs.convs, conversationId,
                        [conversation EXCEPT !.updatedAt = t]),
             heap |-> [a \in DOMAIN cs.heap |->
                        IF a \in hit THEN Spread(cs.heap[a], update) ELSE cs.heap[a]]]

\* updateMessage: messages.map(msg => msg.id === messageId ? {...msg, ...update} : msg)
\* builds a new array, and a new object for every message that matches
updateMessage(cs, conversationId, messageId, update, t) ==
    IF ~MapHas(cs.convs, conversationId) THEN cs
    ELSE LET conversation == MapGet(cs.convs, conversationId)
             msgs == conversation.messages
             hit == {i \in 1..Len(msgs) : cs.heap[msgs[i]].id = messageId}
             fresh == FreeAddrs(DOMAIN cs.heap, Cardinality(hit))
             rank(i) == Cardinality({j \in hit : j <= i})
             newMsgs == [i \in 1..Len(msgs) |->
                            IF i \in hit THEN fresh[rank(i)] ELSE msgs[i]]
             newHeap == [a \in DOMAIN cs.heap \cup {fresh[k] : k \in 1..Len(fresh)} |->
                            IF a \in DOMAIN cs.heap THEN cs.heap[a]
                            ELSE LET i == CHOOSE j \in hit : fresh[rank(j)] = a
                                 IN Spread(cs.heap[msgs[i]], update)]
         IN [convs |-> MapSet(cs.convs, conversationId,
                        [conversation EXCEPT !.messages = newMsgs, !.updatedAt = t]),
             heap |-> newHeap]

\* what an array slot holds when an assignment past the end left it empty
Hole == [type |-> "empty"]

\* the value undefined in an array slot
undefined == [type |-> "undefined"]

\* the value null in an array slot: what JSON.stringify writes for an empty
\* slot and for undefined
Null == [type |-> "null"]

\* [...arr]: the iterator reads every index, an empty slot gives undefined
SpreadArray(arr) == [i \in 1..Len(arr) |-> IF arr[i] = Hole THEN undefined ELSE arr[i]]

\* appendToLastMessage
appendToLastMessage(cs, conversationId, content, t) ==
    IF ~MapHas(cs.convs, conversationId) THEN cs
    ELSE LET conversation == MapGet(cs.convs, conversationId)
             msgs == conversation.messages
         IN IF Len(msgs) = 0 THEN cs
            ELSE LET lastMessage == cs.heap[msgs[Len(msgs)]]
                     a == NewAddr(cs.heap)
                 IN [convs |-> MapSet(cs.convs, conversationId,
                                [conversation EXCEPT !.messages[Len(msgs)] = a,
                                                     !.updatedAt = t]),
                     heap |-> HeapPut(cs.heap, a,
                                [lastMessage EXCEPT !.content =
                                    Append(SpreadArray(@), content)])]

\* arr[index] = v on a copy of arr
ArraySet(arr, index, v) ==
    IF index < 0 THEN arr
    ELSE IF index < Len(arr) THEN [arr EXCEPT ![index + 1] = v]
    ELSE arr \o [i \in 1..(index - Len(arr)) |-> Hole] \o <<v>>

\* updateLastMessageContent
updateLastMessageContent(cs, conversationId, contentIndex, content, t) ==
    IF ~MapHas(cs.convs, conversationId) THEN cs
    ELSE LET conversation == MapGet(cs.convs, conversationId)
             msgs == conversation.messages
         IN IF Len(msgs) = 0 THEN cs
            ELSE LET lastMessage == cs.heap[msgs[Len(msgs)]]
                     a == NewAddr(cs.heap)
                 IN [convs |-> MapSet(cs.convs, conversationId,
                                [conversation EXCEPT !.messages[Len(msgs)] = a,
                                                     !.updatedAt = t]),
                     heap |-> HeapPut(cs.heap, a,
                                [lastMessage EXCEPT !.content =
                                    ArraySet(SpreadArray(@), contentIndex, content)])]

\* branchConversation as it would be if the new message went to the source
branchConversationIntoSource(cs, id, conversationId, fromMessageIndex, newMessage, t, t2) ==
    LET found == MapHas(cs.convs, conversationId)
        workspaceId == IF found THEN MapGet(cs.convs, conversationId).workspaceId ELSE NoId
        agentId == IF found THEN MapGet(cs.convs, conversationId).agentId ELSE NoId
        created == createConversation(cs, id, workspaceId, agentId, conversationId,
                                      {fromMessageIndex}, t)
    IN IF newMessage # {}
       THEN addMessage(created, conversationId, CHOOSE a \in newMessage : TRUE, t2)
       ELSE created

\* branchConversation: id is the id createConversation gives out, newMessage
\* holds the address of the caller's message object, or nothing; the '' that
\* stands in for the workspace and the agent of a missing source is NoId; t is
\* what Date.now() returns in createConversation, t2 what it returns in addMessage
branchConversation(cs, id, conversationId, fromMessageIndex, newMessage, t, t2) ==
    LET found == MapHas(cs.convs, conversationId)
        workspaceId == IF found THEN MapGet(cs.convs, conversationId).workspaceId ELSE NoId
        agentId == IF found THEN MapGet(cs.convs, conversationId).agentId ELSE NoId
        created == createConversation(cs, id, workspaceId, agentId, conversationId,
                                      {fromMessageIndex}, t)
    IN IF newMessage # {}
       THEN addMessage(created, id, CHOOSE a \in newMessage : TRUE, t2)
       ELSE created

\* getConversation(id)?.messages as values; <<>> when the id does not resolve
getMessages(convs, h, conversationId) ==
    IF MapHas(convs, conversationId)
    THEN Deref(h, MapGet(convs, conversationId).messages)
    ELSE <<>>

\* ------------------------------------------------ agentStore operations
\* PROVIDER_MODELS[provider]?.[0] ?? ''
getDefaultModel(provider) ==
    CASE provider = "anthropic" -> "claude-sonnet-4-5-20250929"
      [] provider = "openai" -> "gpt-4o"
      [] provider = "google" -> "gemini-2.0-flash"
      [] OTHER -> ""

\* createAgent: the Agent object stored under id
createAgent(ags, id, config, t) ==
    MapSet(ags, id,
        [id |-> id, status |-> "idle", workspaceId |-> config.workspaceId,
         conversationId |-> NoId,
         model |-> IF config.model # "" THEN config.model
                   ELSE getDefaultModel(config.provider),
         provider |-> config.provider, createdAt |-> t, updatedAt |-> t])

\* updateAgentStatus as it would be if the status were one field for all agents
updateAgentStatusOfAll(ags, agentId, status, t) ==
    IF ~MapHas(ags, agentId) THEN ags
    ELSE [i \in 1..Len(ags) |-> [ags[i] EXCEPT !.value.status = status, !.value.updatedAt = t]]

\* updateAgentStatus
updateAgentStatus(ags, agentId, status, t) ==
    IF ~MapHas(ags, agentId) THEN ags
    ELSE MapSet(ags, agentId,
            [MapGet(ags, agentId) EXCEPT !.status = status, !.updatedAt = t])

\* createWorkspace of the workspace store: the Workspace object stored under id
createWorkspace(ws, id, config, t) ==
    MapSet(ws, id, [id |-> id, name |-> config.name, agentIds |-> <<>>,
                    isolated |-> config.isolated, createdAt |-> t, updatedAt |-> t])

\* ---------------------------------------------------- messageAdapter
\* strings.join('\n')
RECURSIVE JoinLines(_)
JoinLines(strings) ==
    IF Len(strings) = 0 THEN <<>>
    ELSE IF Len(strings) = 1 THEN strings[1]
    ELSE strings[1] \o <<"\n">> \o JoinLines(Tail(strings))

\* toAISDKMessages: one {role, content} per message, content the text blocks'
\* texts joined by newlines. filter never visits an empty slot; block.type of a
\* slot that holds undefined or null throws a TypeError.
toAISDKMessages(messages) ==
    IF \E i \in 1..Len(messages) :
          \E k \in 1..Len(messages[i].content) :
             messages[i].content[k] \in {undefined, Null}
    THEN [threw |-> TRUE, messages |-> <<>>]
    ELSE [threw |-> FALSE,
          messages |->
            [i \in 1..Len(messages) |->
                [role |-> messages[i].role,
                 content |-> JoinLines(
                    LET texts == SelectSeq(messages[i].content, LAMBDA b : b.type = "text")
                    IN [k \in 1..Len(texts) |-> texts[k].text])]]]

\* getProvider: the providers of its switch; it throws for every other one
KnownProviders == {"anthropic", "openai"}

\* import.meta.env: the providers whose VITE_*_API_KEY is set in the build;
\* getApiKey throws for every other one
AllKeys == {"anthropic", "openai", "google"}
Envs == {{}, AllKeys}

\* ------------------------------------------------------- the inputs
Chunks == {<<>>, <<"a">>, <<"b">>}
UserTexts == {<<"h">>, <<" ", "\t">>, <<"U+2003">>}
Titles == {<<"t">>}
Blocks == {ThinkingBlock(<<"q">>)}
Updates ==
    {[content |-> <<>>],
     [metadata |-> {[streaming |-> FALSE, stopReason |-> "end_turn"]}]}
BranchPoints == {{}} \cup {{k} : k \in (0 - 2)..1}
FromMessageIndexes == 0..1
NewMessages == {{}, {<<"n">>}}
ContentIndexes == (0 - 1)..1
WorkspaceIds == {1}
WorkspaceConfigs == {[name |-> <<"w">>, isolated |-> FALSE]}
AgentConfigs == [workspaceId : WorkspaceIds, model : {""}, provider : {"anthropic", "google"}]

\* the ids a caller can name: those handed out so far, whether the conversation
\* is still stored or was deleted (then the id resolves to nothing)
ConvInputs == 1..(nextConvId - 1)
\* the agent ids handed out so far, and one that never was
AgentInputs == 1..nextAgentId

\* ------------------------------------------------------- the state
\* the stores, each persisted under a key of its own
Stores == {"chat", "agent", "workspace"}

\* a key of storage that was never written
Absent == [kind |-> "absent"]

\* a key of storage that holds what the store's present state serialises to:
\* the store wrote after its last change
InStep == [kind |-> "in step"]

\* the persist middleware: an operation that calls set of a store writes
\* partialize(state) under the store's key, whether the state changed or not
Wrote(names) ==
    storage' = [name \in Stores |-> IF name \in names THEN InStep ELSE storage[name]]

\* what the keys hold when the reads of a first visit have settled: persist of
\* zustand 4 wrote the merged state of each store back, persist of zustand 5
\* wrote nothing (no migration ran); the repository does not pin the version
HydratedKeys == {[name \in Stores |-> Absent], [name \in Stores |-> InStep]}

\* the keys after that and a write of the stores in names
KeysAfter(names) ==
    {[name \in Stores |-> IF name \in names THEN InStep ELSE keys[name]] :
        keys \in HydratedKeys}

NewTurn ==
    [pc |-> "new", agentId |-> NoId, conversationId |-> NoId, userText |-> <<>>,
     provider |-> "", userMessage |-> {}, messageId |-> NoId, aiMessages |-> <<>>,
     accumulatedText |-> <<>>, deltas |-> <<>>, error |-> "", signal |-> "none"]

TreeOff == [pc |-> "off"]

\* the stores as create() leaves them when nothing is stored: the collections
\* are empty; persist has started to read the three keys (getItem of the
\* IndexedDB storage is async)
Init ==
    /\ conversations = <<>>
    /\ activeConversationId = NoId
    /\ heap = <<>>
    /\ agents = <<>>
    /\ turn = [t \in Turns |-> NewTurn]
    /\ running = NoTurn
    /\ now = 0
    /\ nextConvId = 1
    /\ nextMsgId = 1
    /\ nextAgentId = 1
    /\ ops = 0
    /\ tree = TreeOff
    /\ pendingActions = <<>>
    /\ workspaces = <<>>
    /\ activeWorkspaceId = NoId
    /\ nextWorkspaceId = 1
    /\ resolveCalls = {}
    /\ storage = [name \in Stores |-> Absent]
    /\ env \in Envs
    /\ hydration = "none"
    /\ reads = [name \in Stores |-> {Absent}]

\* the three reads have settled: merge made empty Maps of the nothing they
\* returned
InitHydrated ==
    /\ conversations = <<>>
    /\ activeConversationId = NoId
    /\ heap = <<>>
    /\ agents = <<>>
    /\ turn = [t \in Turns |-> NewTurn]
    /\ running = NoTurn
    /\ now = 0
    /\ nextConvId = 1
    /\ nextMsgId = 1
    /\ nextAgentId = 1
    /\ ops = 0
    /\ tree = TreeOff
    /\ pendingActions = <<>>
    /\ workspaces = <<>>
    /\ activeWorkspaceId = NoId
    /\ nextWorkspaceId = 1
    /\ resolveCalls = {}
    /\ storage \in HydratedKeys
    /\ env \in Envs
    /\ hydration = "ok"
    /\ reads = [name \in Stores |-> {}]

\* the stores after that and createWorkspace, in a build that has every API
\* key: the workspace that the agents and the conversations of a run are made in
InitWorkspace ==
    /\ conversations = <<>>
    /\ activeConversationId = NoId
    /\ heap = <<>>
    /\ agents = <<>>
    /\ turn = [t \in Turns |-> NewTurn]
    /\ running = NoTurn
    /\ now = 0
    /\ nextConvId = 1
    /\ nextMsgId = 1
    /\ nextAgentId = 1
    /\ ops = 0
    /\ tree = TreeOff
    /\ pendingActions = <<>>
    /\ workspaces \in {createWorkspace(<<>>, 1, config, 0) : config \in WorkspaceConfigs}
    /\ activeWorkspaceId = 1
    /\ nextWorkspaceId = 2
    /\ resolveCalls = {}
    /\ storage \in KeysAfter({"workspace"})
    /\ env = AllKeys
    /\ hydration = "ok"
    /\ reads = [name \in Stores |-> {}]

CS == [convs |-> conversations, heap |-> heap]

\* the store takes the value cs and the turns' locals the value tn; v is the
\* value of cs and c what is left of it after the collection
Commit(cs, tn) ==
    \E v \in {cs} : \E c \in {Collect(v, tn)} :
        /\ conversations' = c.convs
        /\ heap' = c.heap
        /\ turn' = c.turn

\* a call made from the UI: no sendMessage segment is executing
UICall ==
    /\ running = NoTurn
    /\ ops < MaxOps
    /\ ops' = ops + 1

\* the values Date.now() returns in one run
Clock == {0, 1}

\* Date.now() is read more than once during a call or a step: between the
\* first read and the last d milliseconds pass
Delays == {0, 1}

\* a call made from the UI that takes d milliseconds
UICallFor(d) ==
    /\ running = NoTurn
    /\ ops + d < MaxOps
    /\ ops' = ops + d + 1
    /\ now + d \in Clock
    /\ now' = now + d

\* a step of a sendMessage segment that takes d milliseconds
StepFor(d) ==
    /\ ops + d <= MaxOps
    /\ ops' = ops + d
    /\ now + d \in Clock
    /\ now' = now + d

\* a millisecond passes, between two calls or between two steps of a segment:
\* Date.now() returns a later time from now on
Tick ==
    /\ ops < MaxOps
    /\ ops' = ops + 1
    /\ now + 1 \in Clock
    /\ now' = now + 1
    /\ Wrote({})
    /\ UNCHANGED <<conversations, activeConversationId, heap, agents, turn, running,
                   nextConvId, nextMsgId, nextAgentId, tree, hydration, reads, env, pendingActions,
                   workspaceStore, resolveCalls>>

\* ------------------------------------------------- store actions (UI)
CreateAgent(config) ==
    /\ UICall
    /\ agents' = createAgent(agents, nextAgentId, config, now)
    /\ nextAgentId' = nextAgentId + 1
    /\ Wrote({"agent"})
    /\ UNCHANGED <<conversations, activeConversationId, heap, turn, running, now,
                   nextConvId, nextMsgId, tree, hydration, reads, env, pendingActions, workspaceStore, resolveCalls>>

CreateConversation(workspaceId, agentId, parentId, branchPoint) ==
    /\ UICall
    /\ Commit(createConversation(CS, nextConvId, workspaceId, agentId, parentId,
                                 branchPoint, now), turn)
    /\ activeConversationId' = nextConvId
    /\ nextConvId' = nextConvId + 1
    /\ Wrote({"chat"})
    /\ UNCHANGED <<agents, running, now, nextMsgId, nextAgentId, tree, hydration, reads, env, pendingActions, workspaceStore, resolveCalls>>

DeleteConversation(conversationId) ==
    /\ UICall
    /\ Commit(deleteConversation(CS, conversationId), turn)
    /\ activeConversationId' =
         IF activeConversationId = conversationId THEN NoId ELSE activeConversationId
    /\ Wrote({"chat"})
    /\ UNCHANGED <<agents, running, now, nextConvId, nextMsgId, nextAgentId, tree, hydration, reads, env, pendingActions, workspaceStore, resolveCalls>>

UpdateConversationTitle(conversationId, title) ==
    /\ UICall
    /\ Commit(updateConversationTitle(CS, conversationId, title, now), turn)
    /\ Wrote(IF MapHas(conversations, conversationId) THEN {"chat"} ELSE {})
    /\ UNCHANGED <<activeConversationId, agents, running, now,
                   nextConvId, nextMsgId, nextAgentId, tree, hydration, reads, env, pendingActions, workspaceStore, resolveCalls>>

\* addMessage(conversationId, createTextMessage(role, text)): createTextMessage
\* reads the clock for the timestamp, addMessage reads it again
AddMessage(conversationId, role, text) ==
    /\ \E d \in Delays :
         /\ UICallFor(d)
         /\ LET a == NewAddr(heap)
                message == createTextMessage(nextMsgId, role, text, NoId, now)
            IN Commit(addMessage([CS EXCEPT !.heap = HeapPut(@, a, message)],
                                 conversationId, a, now + d), turn)
    /\ nextMsgId' = IF MapHas(conversations, conversationId)
                    THEN nextMsgId + 1 ELSE nextMsgId
    /\ Wrote(IF MapHas(conversations, conversationId) THEN {"chat"} ELSE {})
    /\ UNCHANGED <<activeConversationId, agents, running,
                   nextConvId, nextAgentId, tree, hydration, reads, env, pendingActions, workspaceStore, resolveCalls>>

\* newMessage holds the text of the message the caller made, or nothing; the
\* caller's createTextMessage reads the clock, createConversation reads it
\* again and addMessage once more
BranchConversation(conversationId, fromMessageIndex, newMessage) ==
    /\ \E d1 \in Delays, d2 \in (IF newMessage = {} THEN {0} ELSE Delays) :
         /\ UICallFor(d1 + d2)
         /\ LET a == NewAddr(heap)
                cs == IF newMessage = {} THEN CS
                      ELSE [CS EXCEPT !.heap = HeapPut(@, a,
                               createTextMessage(nextMsgId, "user",
                                   CHOOSE text \in newMessage : TRUE, NoId, now))]
            IN Commit(branchConversation(cs, nextConvId, conversationId, fromMessageIndex,
                                         IF newMessage = {} THEN {} ELSE {a},
                                         now + d1, now + d1 + d2), turn)
    /\ activeConversationId' = nextConvId
    /\ nextConvId' = nextConvId + 1
    /\ nextMsgId' = IF newMessage = {} THEN nextMsgId ELSE nextMsgId + 1
    /\ Wrote({"chat"})
    /\ UNCHANGED <<agents, running, nextAgentId, tree, hydration, reads, env, pendingActions, workspaceStore, resolveCalls>>

UpdateMessage(conversationId, messageId, update) ==
    /\ UICall
    /\ Commit(updateMessage(CS, conversationId, messageId, update, now), turn)
    /\ Wrote(IF MapHas(conversations, conversationId) THEN {"chat"} ELSE {})
    /\ UNCHANGED <<activeConversationId, agents, running, now,
                   nextConvId, nextMsgId, nextAgentId, tree, hydration, reads, env, pendingActions, workspaceStore, resolveCalls>>

AppendToLastMessage(conversationId, content) ==
    /\ UICall
    /\ Commit(appendToLastMessage(CS, conversationId, content, now), turn)
    /\ Wrote(IF getMessages(conversations, heap, conversationId) # <<>> THEN {"chat"} ELSE {})
    /\ UNCHANGED <<activeConversationId, agents, running, now,
                   nextConvId, nextMsgId, nextAgentId, tree, hydration, reads, env, pendingActions, workspaceStore, resolveCalls>>

UpdateLastMessageContent(conversationId, contentIndex, content) ==
    /\ UICall
    /\ Commit(updateLastMessageContent(CS, conversationId, contentIndex, content, now),
              turn)
    /\ Wrote(IF getMessages(conversations, heap, conversationId) # <<>> THEN {"chat"} ELSE {})
    /\ UNCHANGED <<activeConversationId, agents, running, now,
                   nextConvId, nextMsgId, nextAgentId, tree, hydration, reads, env, pendingActions, workspaceStore, resolveCalls>>

\* the conversation store driven from the UI
StoreNext ==
    \/ \E w \in WorkspaceIds : CreateConversation(w, 1, NoId, {})
    \/ \E w \in WorkspaceIds, p \in ConvInputs, k \in BranchPoints :
         CreateConversation(w, 1, p, k)
    \/ \E c \in ConvInputs, k \in FromMessageIndexes, m \in NewMessages :
         BranchConversation(c, k, m)
    \/ \E c \in ConvInputs : DeleteConversation(c)
    \/ \E c \in ConvInputs, title \in Titles : UpdateConversationTitle(c, title)
    \/ \E c \in ConvInputs : AddMessage(c, "user", <<"h">>)
    \/ \E c \in ConvInputs, m \in 1..nextMsgId, u \in Updates : UpdateMessage(c, m, u)
    \/ \E c \in ConvInputs, b \in Blocks : AppendToLastMessage(c, b)
    \/ \E c \in ConvInputs, i \in ContentIndexes, b \in Blocks :
         UpdateLastMessageContent(c, i, b)


\* --------------------------------------------- useAgentChat.sendMessage
\* A sendMessage invocation runs synchronously from the call to its first
\* await and from one chunk to the next; while it does (running = t) nothing
\* else executes. Each store call of a segment is a step of its own, so that
\* the order of the writes is part of the behaviour.

\* !userText.trim()
\* the white space and the line terminators that trim removes. A character
\* that a string of a module cannot hold (every one from U+2000 on) is written
\* as the name of its code point, so a text is a sequence of characters each
\* of which is a one-character string or such a name.
WhiteSpace ==
    {" ", "\t", "\n", "\r", "\f", "", " ", "﻿", " ",
     "U+2000", "U+2001", "U+2002", "U+2003", "U+2004", "U+2005", "U+2006",
     "U+2007", "U+2008", "U+2009", "U+200A", "U+2028", "U+2029", "U+202F",
     "U+205F", "U+3000"}

IsBlank(userText) == \A i \in 1..Len(userText) : userText[i] \in WhiteSpace

\* the turn is between its first store call and its last
InFlight(t) ==
    turn[t].pc \in {"setThinking", "addUser", "context", "setStreaming", "addAssistant",
                    "stream", "finalize", "setIdle", "catch"}

\* sendMessage with a guard on the agent's status: a call for an agent that is
\* not idle returns at once
SendMessageWhenIdle(t, agentId, conversationId, userText) ==
    /\ UICall
    /\ turn[t].pc = "new"
    /\ IF agentId = NoId \/ IsBlank(userText)
       THEN /\ turn' = [turn EXCEPT ![t].pc = "returned"]
            /\ running' = running
       ELSE IF ~MapHas(agents, agentId)
       THEN /\ turn' = [turn EXCEPT ![t].pc = "returned",
                                    ![t].error = "Agent not found"]
            /\ running' = running
       ELSE IF MapGet(agents, agentId).status # "idle"
       THEN /\ turn' = [turn EXCEPT ![t].pc = "returned"]
            /\ running' = running
       ELSE /\ turn' = [turn EXCEPT ![t].pc = "setThinking",
                                    ![t].agentId = agentId,
                                    ![t].conversationId = conversationId,
                                    ![t].userText = userText,
                                    ![t].provider = MapGet(agents, agentId).provider]
            /\ running' = t
    /\ Wrote({})
    /\ UNCHANGED <<conversations, activeConversationId, heap, agents, now,
                   nextConvId, nextMsgId, nextAgentId, tree, hydration, reads, env, pendingActions, workspaceStore, resolveCalls>>

\* lines 18-29: the guards before the try block
SendMessage(t, agentId, conversationId, userText) ==
    /\ UICall
    /\ turn[t].pc = "new"
    /\ IF agentId = NoId \/ IsBlank(userText)
       THEN /\ turn' = [turn EXCEPT ![t].pc = "returned"]
            /\ running' = running
       ELSE IF ~MapHas(agents, agentId)
       THEN /\ turn' = [turn EXCEPT ![t].pc = "returned",
                                    ![t].error = "Agent not found"]
            /\ running' = running
       ELSE /\ turn' = [turn EXCEPT ![t].pc = "setThinking",
                                    ![t].agentId = agentId,
                                    ![t].conversationId = conversationId,
                                    ![t].userText = userText,
                                    ![t].provider = MapGet(agents, agentId).provider]
            /\ running' = t
    /\ Wrote({})
    /\ UNCHANGED <<conversations, activeConversationId, heap, agents, now,
                   nextConvId, nextMsgId, nextAgentId, tree, hydration, reads, env, pendingActions, workspaceStore, resolveCalls>>

\* line 33
TurnSetThinking(t) ==
    /\ running = t
    /\ turn[t].pc = "setThinking"
    /\ agents' = updateAgentStatus(agents, turn[t].agentId, "thinking", now)
    /\ turn' = [turn EXCEPT ![t].pc = "addUser"]
    /\ Wrote(IF MapHas(agents, turn[t].agentId) THEN {"agent"} ELSE {})
    /\ UNCHANGED <<conversations, activeConversationId, heap, running, now,
                   nextConvId, nextMsgId, nextAgentId, ops, tree, hydration, reads, env, pendingActions, workspaceStore, resolveCalls>>

\* lines 36-37
TurnAddUser(t) ==
    /\ running = t
    /\ turn[t].pc = "addUser"
    /\ \E d \in Delays :
         /\ StepFor(d)
         /\ LET a == NewAddr(heap)
                userMessage == createTextMessage(nextMsgId, "user", turn[t].userText,
                                                 turn[t].agentId, now)
            IN Commit(addMessage([CS EXCEPT !.heap = HeapPut(@, a, userMessage)],
                                 turn[t].conversationId, a, now + d),
                      [turn EXCEPT ![t].pc = "context", ![t].userMessage = {a}])
    /\ nextMsgId' = nextMsgId + 1
    /\ Wrote(IF MapHas(conversations, turn[t].conversationId) THEN {"chat"} ELSE {})
    /\ UNCHANGED <<activeConversationId, agents, running,
                   nextConvId, nextAgentId, tree, hydration, reads, env, pendingActions, workspaceStore, resolveCalls>>

\* toAISDKMessages([...conversation.messages, userMessage])
TurnContextMessages(convs, h, conversationId, userMessage) ==
    toAISDKMessages(getMessages(convs, h, conversationId) \o <<h[userMessage]>>)

\* lines 40-52: the conversation, the provider, the context that is sent
TurnContext(t) ==
    /\ running = t
    /\ turn[t].pc = "context"
    /\ LET aiMessages == TurnContextMessages(conversations, heap,
                             turn[t].conversationId,
                             CHOOSE a \in turn[t].userMessage : TRUE)
           tn == IF ~MapHas(conversations, turn[t].conversationId)
                 THEN [turn EXCEPT ![t].pc = "catch", ![t].userMessage = {},
                                   ![t].error = "Conversation not found"]
                 ELSE IF turn[t].provider \notin env
                 THEN [turn EXCEPT ![t].pc = "catch", ![t].userMessage = {},
                                   ![t].error = "API key not found"]
                 ELSE IF turn[t].provider \notin KnownProviders
                 THEN [turn EXCEPT ![t].pc = "catch", ![t].userMessage = {},
                                   ![t].error = "Unknown provider"]
                 ELSE IF aiMessages.threw
                 THEN [turn EXCEPT ![t].pc = "catch", ![t].userMessage = {},
                                   ![t].error = "TypeError"]
                 ELSE [turn EXCEPT ![t].pc = "addAssistant", ![t].userMessage = {},
                                   ![t].aiMessages = aiMessages.messages]
       IN Commit(CS, tn)
    /\ Wrote({})
    /\ UNCHANGED <<activeConversationId, agents, running, now,
                   nextConvId, nextMsgId, nextAgentId, ops, tree, hydration, reads, env, pendingActions, workspaceStore, resolveCalls>>

\* lines 55-59
TurnAddAssistant(t) ==
    /\ running = t
    /\ turn[t].pc = "addAssistant"
    /\ \E d \in Delays :
         /\ StepFor(d)
         /\ LET a == NewAddr(heap)
                assistantMessage == createStreamingMessage(nextMsgId, turn[t].agentId, now)
            IN Commit(addMessage([CS EXCEPT !.heap = HeapPut(@, a, assistantMessage)],
                                 turn[t].conversationId, a, now + d),
                      [turn EXCEPT ![t].pc = "setStreaming", ![t].messageId = nextMsgId])
    /\ nextMsgId' = nextMsgId + 1
    /\ Wrote(IF MapHas(conversations, turn[t].conversationId) THEN {"chat"} ELSE {})
    /\ UNCHANGED <<activeConversationId, agents, running,
                   nextConvId, nextAgentId, tree, hydration, reads, env, pendingActions, workspaceStore, resolveCalls>>

\* lines 62-72: the status, a new AbortController whose signal goes to
\* streamText, then the await of streamText gives up control
TurnSetStreaming(t) ==
    /\ running = t
    /\ turn[t].pc = "setStreaming"
    /\ agents' = updateAgentStatus(agents, turn[t].agentId, "streaming", now)
    /\ turn' = [turn EXCEPT ![t].pc = "stream", ![t].signal = "open"]
    /\ running' = NoTurn
    /\ Wrote(IF MapHas(agents, turn[t].agentId) THEN {"agent"} ELSE {})
    /\ UNCHANGED <<conversations, activeConversationId, heap, now,
                   nextConvId, nextMsgId, nextAgentId, ops, tree, hydration, reads, env, pendingActions, workspaceStore, resolveCalls>>

\* messages.find(m => m.id === messageId): its index, 0 for undefined
FindMessage(messages, messageId) ==
    IF \E i \in 1..Len(messages) : messages[i].id = messageId
    THEN CHOOSE i \in 1..Len(messages) :
            /\ messages[i].id = messageId
            /\ \A j \in 1..(i - 1) : messages[j].id # messageId
    ELSE 0

\* the loop body as it would be if it wrote to the last message of the
\* conversation instead of the message with the id of the turn
applyChunkToLast(cs, conversationId, messageId, accumulatedText, chunk, t) ==
    LET messages == getMessages(cs.convs, cs.heap, conversationId)
        content == messages[Len(messages)].content
    IN IF messages = <<>>
       THEN cs
       ELSE IF Len(content) > 0
       THEN LET lastBlock == content[Len(content)]
            IN IF lastBlock.type = "text"
               THEN updateMessage(cs, conversationId, messages[Len(messages)].id,
                        [content |-> DropLast(content)
                                     \o <<mergeTextDelta(lastBlock, chunk)>>], t)
               ELSE cs
       ELSE updateMessage(cs, conversationId, messages[Len(messages)].id,
                [content |-> <<createTextBlock(accumulatedText)>>], t)

\* lines 78-100: the body of the for-await loop for one chunk; accumulatedText
\* already holds the chunk
applyChunk(cs, conversationId, messageId, accumulatedText, chunk, t) ==
    LET messages == getMessages(cs.convs, cs.heap, conversationId)
        found == FindMessage(messages, messageId)
        content == messages[found].content
    IN IF found # 0 /\ Len(content) > 0
       THEN LET lastBlock == content[Len(content)]
            IN IF lastBlock.type = "text"
               THEN updateMessage(cs, conversationId, messageId,
                        [content |-> SpreadArray(DropLast(content))
                                     \o <<mergeTextDelta(lastBlock, chunk)>>], t)
               ELSE cs
       ELSE updateMessage(cs, conversationId, messageId,
                [content |-> <<createTextBlock(accumulatedText)>>], t)

\* the loop body calls updateMessage and updateMessage finds the conversation
applyChunkWrites(cs, conversationId, messageId) ==
    LET messages == getMessages(cs.convs, cs.heap, conversationId)
        found == FindMessage(messages, messageId)
        content == messages[found].content
    IN /\ MapHas(cs.convs, conversationId)
       /\ (found # 0 /\ Len(content) > 0) => content[Len(content)].type = "text"

\* one chunk arrives from textStream; the loop does not read the signal, a
\* chunk that the channel yields after an abort is applied like any other
TurnChunk(t, chunk) ==
    /\ running = NoTurn
    /\ turn[t].pc = "stream"
    /\ Len(turn[t].deltas) < MaxDeltas
    /\ LET accumulatedText == turn[t].accumulatedText \o chunk
       IN Commit(applyChunk(CS, turn[t].conversationId, turn[t].messageId,
                            accumulatedText, chunk, now),
                 [turn EXCEPT ![t].accumulatedText = accumulatedText,
                              ![t].deltas = Append(@, chunk)])
    /\ Wrote(IF applyChunkWrites(CS, turn[t].conversationId, turn[t].messageId)
             THEN {"chat"} ELSE {})
    /\ UNCHANGED <<activeConversationId, agents, running, now,
                   nextConvId, nextMsgId, nextAgentId, ops, tree, hydration, reads, env, pendingActions, workspaceStore, resolveCalls>>

\* textStream is exhausted, after an abort or without one: the loop ends
TurnStreamEnd(t) ==
    /\ running = NoTurn
    /\ turn[t].pc = "stream"
    /\ turn' = [turn EXCEPT ![t].pc = "finalize"]
    /\ running' = t
    /\ Wrote({})
    /\ UNCHANGED <<conversations, activeConversationId, heap, agents, now,
                   nextConvId, nextMsgId, nextAgentId, ops, tree, hydration, reads, env, pendingActions, workspaceStore, resolveCalls>>

\* lines 104-109
TurnFinalize(t) ==
    /\ running = t
    /\ turn[t].pc = "finalize"
    /\ Commit(updateMessage(CS, turn[t].conversationId, turn[t].messageId,
                [metadata |-> {[streaming |-> FALSE, stopReason |-> "end_turn"]}], now),
              [turn EXCEPT ![t].pc = "setIdle"])
    /\ Wrote(IF MapHas(conversations, turn[t].conversationId) THEN {"chat"} ELSE {})
    /\ UNCHANGED <<activeConversationId, agents, running, now,
                   nextConvId, nextMsgId, nextAgentId, ops, tree, hydration, reads, env, pendingActions, workspaceStore, resolveCalls>>

\* line 112
TurnSetIdle(t) ==
    /\ running = t
    /\ turn[t].pc = "setIdle"
    /\ agents' = updateAgentStatus(agents, turn[t].agentId, "idle", now)
    /\ turn' = [turn EXCEPT ![t].pc = "done"]
    /\ running' = NoTurn
    /\ Wrote(IF MapHas(agents, turn[t].agentId) THEN {"agent"} ELSE {})
    /\ UNCHANGED <<conversations, activeConversationId, heap, now,
                   nextConvId, nextMsgId, nextAgentId, ops, tree, hydration, reads, env, pendingActions, workspaceStore, resolveCalls>>

\* streamText or textStream throws, whatever the reason (the provider failed,
\* the channel rejects a read after an abort)
TurnStreamFail(t) ==
    /\ running = NoTurn
    /\ turn[t].pc = "stream"
    /\ turn' = [turn EXCEPT ![t].pc = "catch", ![t].error = "Stream failed"]
    /\ running' = t
    /\ Wrote({})
    /\ UNCHANGED <<conversations, activeConversationId, heap, agents, now,
                   nextConvId, nextMsgId, nextAgentId, ops, tree, hydration, reads, env, pendingActions, workspaceStore, resolveCalls>>

\* the catch block as it would be if it also emptied the assistant message
TurnCatchRollback(t) ==
    /\ running = t
    /\ turn[t].pc = "catch"
    /\ agents' = updateAgentStatus(agents, turn[t].agentId, "error", now)
    /\ Commit(updateMessage(CS, turn[t].conversationId, turn[t].messageId,
                            [content |-> <<>>], now),
              [turn EXCEPT ![t].pc = "failed"])
    /\ running' = NoTurn
    /\ Wrote((IF MapHas(agents, turn[t].agentId) THEN {"agent"} ELSE {})
             \cup (IF MapHas(conversations, turn[t].conversationId) THEN {"chat"} ELSE {}))
    /\ UNCHANGED <<activeConversationId, now,
                   nextConvId, nextMsgId, nextAgentId, ops, tree, hydration, reads, env, pendingActions, workspaceStore, resolveCalls>>

\* the catch block as it would be if the code after the loop ran after it
TurnCatchFallThrough(t) ==
    /\ running = t
    /\ turn[t].pc = "catch"
    /\ agents' = updateAgentStatus(agents, turn[t].agentId, "error", now)
    /\ turn' = [turn EXCEPT ![t].pc = "setIdle"]
    /\ running' = running
    /\ Wrote(IF MapHas(agents, turn[t].agentId) THEN {"agent"} ELSE {})
    /\ UNCHANGED <<conversations, activeConversationId, heap, now,
                   nextConvId, nextMsgId, nextAgentId, ops, tree, hydration, reads, env, pendingActions, workspaceStore, resolveCalls>>

\* lines 113-117
TurnCatch(t) ==
    /\ running = t
    /\ turn[t].pc = "catch"
    /\ agents' = updateAgentStatus(agents, turn[t].agentId, "error", now)
    /\ turn' = [turn EXCEPT ![t].pc = "failed"]
    /\ running' = NoTurn
    /\ Wrote(IF MapHas(agents, turn[t].agentId) THEN {"agent"} ELSE {})
    /\ UNCHANGED <<conversations, activeConversationId, heap, now,
                   nextConvId, nextMsgId, nextAgentId, ops, tree, hydration, reads, env, pendingActions, workspaceStore, resolveCalls>>

\* the steps of sendMessage invocation t after the call
TurnStep(t) ==
    \/ TurnSetThinking(t)
    \/ TurnAddUser(t)
    \/ TurnContext(t)
    \/ TurnAddAssistant(t)
    \/ TurnSetStreaming(t)
    \/ \E chunk \in Chunks : TurnChunk(t, chunk)
    \/ TurnStreamEnd(t)
    \/ TurnFinalize(t)
    \/ TurnSetIdle(t)
    \/ TurnStreamFail(t)
    \/ TurnCatch(t)

\* chat turns: agents and conversations are created, messages are added, and
\* sendMessage is called; nothing else writes to the conversation of a turn
TurnNext ==
    \/ Tick
    \/ \E config \in AgentConfigs : CreateAgent(config)
    \/ \E w \in WorkspaceIds : CreateConversation(w, 1, NoId, {})
    \/ \E c \in ConvInputs : AddMessage(c, "user", <<"h">>)
    \/ \E t \in FirstTurn, a \in AgentInputs \cup {NoId}, c \in ConvInputs, u \in UserTexts :
         SendMessage(t, a, c, u)
    \/ \E t \in FirstTurn : TurnStep(t)

SpecTurn == InitHydrated /\ [][TurnNext]_vars

\* the UI drives the store while chat turns run
Next ==
    \/ StoreNext
    \/ TurnNext

Spec == InitWorkspace /\ [][Next]_vars

\* ------------------------------------------------ the tree helpers
\* The helpers take any array of conversations; they read id and parentId
\* only. The ids of a collection are distinct (it comes from the values of
\* the store's Map); a parentId may name a conversation of the collection
\* (itself included), one that is not in it, or nothing.
TreeIds == 1..MaxTreeConvs
TreeParents == 0..(MaxTreeConvs + 1)
TreeConvs == [id : TreeIds, parentId : TreeParents]

TreeInputs ==
    UNION {{cs \in [1..n -> TreeConvs] :
                \A i, j \in 1..n : cs[i].id = cs[j].id => i = j} : n \in 0..MaxTreeConvs}

\* new Map(conversations.map(c => [c.id, c])), from the i-th conversation on
RECURSIVE mapFrom(_, _, _)
mapFrom(convs, i, map) ==
    IF i > Len(convs) THEN map
    ELSE mapFrom(convs, i + 1, MapSet(map, convs[i].id, convs[i]))

conversationMap(convs) == mapFrom(convs, 1, <<>>)

\* the loop of buildConversationTree as it would be if a node whose parent is
\* not found were left out of the roots
RECURSIVE BuildLoopDropDangling(_, _, _, _)
BuildLoopDropDangling(map, i, nodes, roots) ==
    IF i > Len(map) THEN [nodes |-> nodes, roots |-> roots]
    ELSE LET id == map[i].key
             parentId == map[i].value.parentId
         IN IF parentId # NoId
            THEN IF parentId \in DOMAIN nodes
                 THEN BuildLoopDropDangling(map, i + 1,
                        [nodes EXCEPT ![id].depth = nodes[parentId].depth + 1,
                                      ![parentId].children = Append(@, id)],
                        roots)
                 ELSE BuildLoopDropDangling(map, i + 1, nodes, roots)
            ELSE BuildLoopDropDangling(map, i + 1, nodes, Append(roots, id))

\* buildConversationTree, lines 79-93: the loop over conversationMap.values()
\* from the i-th node on. nodes maps an id to its node {depth, children};
\* children and roots hold the ids of the nodes pushed.
RECURSIVE BuildLoop(_, _, _, _)
BuildLoop(map, i, nodes, roots) ==
    IF i > Len(map) THEN [nodes |-> nodes, roots |-> roots]
    ELSE LET id == map[i].key
             parentId == map[i].value.parentId
         IN IF parentId # NoId
            THEN IF parentId \in DOMAIN nodes
                 THEN BuildLoop(map, i + 1,
                        [nodes EXCEPT ![id].depth = nodes[parentId].depth + 1,
                                      ![parentId].children = Append(@, id)],
                        roots)
                 ELSE BuildLoop(map, i + 1, nodes, Append(roots, id))
            ELSE BuildLoop(map, i + 1, nodes, Append(roots, id))

\* buildConversationTree: the nodes of the map and the roots returned
buildConversationTree(convs) ==
    BuildLoop(conversationMap(convs), 1,
              [id \in MapKeys(conversationMap(convs)) |-> [depth |-> 0, children |-> <<>>]],
              <<>>)

Range(seq) == {seq[i] : i \in 1..Len(seq)}

\* the nodes one reaches from the returned roots through children
RECURSIVE ReachFrom(_, _)
ReachFrom(built, seen) ==
    LET more == seen \cup UNION {Range(built.nodes[n].children) : n \in seen}
    IN IF more = seen THEN seen ELSE ReachFrom(built, more)

Flatten(built) == ReachFrom(built, Range(built.roots))

\* getAncestors, lines 103-106: the state before the while loop
ancestorsStart(convs, conversationId) ==
    [pc |-> "walk", convs |-> convs, conversationId |-> conversationId,
     current |-> IF MapHas(conversationMap(convs), conversationId) THEN conversationId ELSE NoId,
     ancestors |-> <<>>]

\* the loop of getAncestors as it would be if it pushed instead of unshifting
ancestorsStepPush(w) ==
    IF w.current # NoId /\ MapGet(conversationMap(w.convs), w.current).parentId # NoId
    THEN LET parentId == MapGet(conversationMap(w.convs), w.current).parentId
         IN IF ~MapHas(conversationMap(w.convs), parentId)
            THEN [w EXCEPT !.pc = "returned"]
            ELSE [w EXCEPT !.ancestors = Append(@, MapGet(conversationMap(w.convs), parentId)),
                           !.current = parentId]
    ELSE [w EXCEPT !.pc = "returned"]

\* getAncestors, lines 108-115: one test of the loop condition and, if it
\* holds, one run of the body; w is the state of the walk
ancestorsStep(w) ==
    IF w.current # NoId /\ MapGet(conversationMap(w.convs), w.current).parentId # NoId
    THEN LET parentId == MapGet(conversationMap(w.convs), w.current).parentId
         IN IF ~MapHas(conversationMap(w.convs), parentId)
            THEN [w EXCEPT !.pc = "returned"]
            ELSE [w EXCEPT !.ancestors = <<MapGet(conversationMap(w.convs), parentId)>> \o @,
                           !.current = parentId]
    ELSE [w EXCEPT !.pc = "returned"]

\* what a call of getDescendants gives: the array it returns, or the
\* RangeError of a recursion that never ends
Overflow == [overflow |-> TRUE, list |-> <<>>]
Returns(list) == [overflow |-> FALSE, list |-> list]

\* the loop of getDescendants as it would be if it pushed all children before
\* the descendants of any of them
RECURSIVE getDescendantsLevels(_, _, _)
getDescendantsLevels(conversationId, convs, depth) ==
    IF depth > Len(convs) THEN Overflow
    ELSE LET children == SelectSeq(convs, LAMBDA c : c.parentId = conversationId)
             below == [i \in 1..Len(children) |->
                          getDescendantsLevels(children[i].id, convs, depth + 1)]
             RECURSIVE Join(_)
             Join(i) == IF i > Len(children) THEN <<>> ELSE below[i].list \o Join(i + 1)
         IN IF \E i \in 1..Len(children) : below[i].overflow THEN Overflow
            ELSE Returns(children \o Join(1))

\* getDescendants at recursion depth `depth`; descendLoop is its for loop from
\* the i-th child on. A chain of calls longer than the collection has come
\* back to a conversation it already visited and never ends.
RECURSIVE getDescendantsAt(_, _, _)
RECURSIVE descendLoop(_, _, _, _, _)
getDescendantsAt(conversationId, convs, depth) ==
    IF depth > Len(convs) THEN Overflow
    ELSE descendLoop(SelectSeq(convs, LAMBDA c : c.parentId = conversationId),
                     1, convs, depth, <<>>)

descendLoop(children, i, convs, depth, descendants) ==
    IF i > Len(children) THEN Returns(descendants)
    ELSE LET below == getDescendantsAt(children[i].id, convs, depth + 1)
         IN IF below.overflow THEN Overflow
            ELSE descendLoop(children, i + 1, convs, depth,
                             Append(descendants, children[i]) \o below.list)

\* getDescendants as it would be without the recursive call: the children only
getDescendantsChildren(conversationId, convs) ==
    Returns(SelectSeq(convs, LAMBDA c : c.parentId = conversationId))

\* getDescendants
getDescendants(conversationId, convs) == getDescendantsAt(conversationId, convs, 0)

\* conversation.messages.length of the conversations given to the helpers:
\* conversation i holds 3^(i-1) messages, so that a sum of lengths tells which
\* conversations were counted, and whether once or twice
TreeMessageCount(id) == 3 ^ (id - 1)

RECURSIVE SumCounts(_)
SumCounts(list) ==
    IF list = <<>> THEN 0 ELSE TreeMessageCount(Head(list).id) + SumCounts(Tail(list))

\* countMessagesInTree as it would be without the test of the conversation
countMessagesInTreeUnchecked(conversationId, convs) ==
    LET descendants == getDescendants(conversationId, convs)
    IN IF descendants.overflow THEN [overflow |-> TRUE, count |-> 0]
       ELSE [overflow |-> FALSE,
             count |-> (IF MapHas(conversationMap(convs), conversationId)
                        THEN TreeMessageCount(conversationId) ELSE 0)
                       + SumCounts(descendants.list)]

\* countMessagesInTree
countMessagesInTree(conversationId, convs) ==
    IF ~MapHas(conversationMap(convs), conversationId) THEN [overflow |-> FALSE, count |-> 0]
    ELSE LET descendants == getDescendants(conversationId, convs)
         IN IF descendants.overflow THEN [overflow |-> TRUE, count |-> 0]
            ELSE [overflow |-> FALSE,
                  count |-> TreeMessageCount(conversationId)
                            + SumCounts(descendants.list)]

\* the state of the store when only the helpers run
StoreIdle ==
    /\ conversations = <<>>
    /\ activeConversationId = NoId
    /\ heap = <<>>
    /\ agents = <<>>
    /\ turn = [t \in Turns |-> NewTurn]
    /\ running = NoTurn
    /\ now = 0
    /\ nextConvId = 1
    /\ nextMsgId = 1
    /\ nextAgentId = 1
    /\ ops = 0
    /\ pendingActions = <<>>
    /\ workspaces = <<>>
    /\ activeWorkspaceId = NoId
    /\ nextWorkspaceId = 1
    /\ resolveCalls = {}
    /\ hydration = "ok"
    /\ storage \in HydratedKeys
    /\ reads = [name \in Stores |-> {}]
    /\ env = AllKeys

InitTree ==
    /\ StoreIdle
    /\ tree \in {[pc |-> "input", convs |-> cs] : cs \in TreeInputs}

storeVars == <<conversations, activeConversationId, heap, agents, turn, running, now,
               nextConvId, nextMsgId, nextAgentId, ops, pendingActions, workspaceStore, resolveCalls,
               hydration, storage, reads, env>>

BuildTree ==
    /\ tree.pc = "input"
    /\ tree' = [pc |-> "built", convs |-> tree.convs,
                built |-> buildConversationTree(tree.convs)]
    /\ UNCHANGED storeVars

GetAncestors(conversationId) ==
    /\ tree.pc = "input"
    /\ tree' = ancestorsStart(tree.convs, conversationId)
    /\ UNCHANGED storeVars

\* the walk goes on for as long as the loop does; the model follows it until
\* it has run once more often than there are conversations
AncestorsStep ==
    /\ tree.pc = "walk"
    /\ Len(tree.ancestors) <= Len(tree.convs)
    /\ tree' = ancestorsStep(tree)
    /\ UNCHANGED storeVars

GetDescendants(conversationId) ==
    /\ tree.pc = "input"
    /\ LET r == getDescendants(conversationId, tree.convs)
       IN tree' = [pc |-> IF r.overflow THEN "overflow" ELSE "descendants",
                   convs |-> tree.convs, conversationId |-> conversationId,
                   descendants |-> r.list]
    /\ UNCHANGED storeVars

CountMessagesInTree(conversationId) ==
    /\ tree.pc = "input"
    /\ LET r == countMessagesInTree(conversationId, tree.convs)
       IN tree' = [pc |-> IF r.overflow THEN "overflow" ELSE "counted",
                   convs |-> tree.convs, conversationId |-> conversationId,
                   count |-> r.count]
    /\ UNCHANGED storeVars

TreeNext ==
    \/ BuildTree
    \/ \E id \in TreeParents \ {NoId} : GetAncestors(id)
    \/ AncestorsStep
    \/ \E id \in TreeParents \ {NoId} : GetDescendants(id)
    \/ \E id \in TreeParents \ {NoId} : CountMessagesInTree(id)

SpecTree == InitTree /\ [][TreeNext]_vars

\* ------------------------------------------------ the agent store
\* Each operation maps the store value st = [agents, pending] to the next one;
\* pending is the pendingActions Map, each value the array of an agent's actions.
AgentStore == [agents |-> agents, pending |-> pendingActions]

\* pendingActions.get(agentId) ?? []
getPendingActions(pending, agentId) ==
    IF MapHas(pending, agentId) THEN MapGet(pending, agentId) ELSE <<>>

\* updateAgent
updateAgent(ags, agentId, update, t) ==
    IF ~MapHas(ags, agentId) THEN ags
    ELSE MapSet(ags, agentId,
            Spread(Spread(MapGet(ags, agentId), update), [updatedAt |-> t]))

\* deleteAgent
deleteAgent(st, agentId) ==
    [agents |-> MapDelete(st.agents, agentId),
     pending |-> MapDelete(st.pending, agentId)]

\* addPendingAction as it would be if it left the status of a busy agent alone
addPendingActionWhenIdle(st, action, t) ==
    LET currentActions == getPendingActions(st.pending, action.agentId)
    IN [pending |-> MapSet(st.pending, action.agentId,
                       Append(currentActions, action)),
        agents |-> IF MapHas(st.agents, action.agentId)
                      /\ MapGet(st.agents, action.agentId).status = "idle"
                   THEN updateAgentStatus(st.agents, action.agentId, "waiting_approval", t)
                   ELSE st.agents]

\* addPendingAction
addPendingAction(st, action, t) ==
    LET currentActions == getPendingActions(st.pending, action.agentId)
    IN [pending |-> MapSet(st.pending, action.agentId,
                       Append(currentActions, action)),
        agents |-> updateAgentStatus(st.agents, action.agentId, "waiting_approval", t)]

\* resolvePendingAction as it would be if it set the status to idle whatever
\* is left in the queue
resolvePendingActionRelease(st, agentId, actionId, resolution, t) ==
    LET actions == getPendingActions(st.pending, agentId)
    IN IF ~\E i \in 1..Len(actions) : actions[i].id = actionId THEN st
       ELSE [pending |-> MapSet(st.pending, agentId,
                            SelectSeq(actions, LAMBDA a : a.id # actionId)),
             agents |-> updateAgentStatus(st.agents, agentId, "idle", t)]

\* resolvePendingAction as it would be if a call for an action that is not in
\* the queue still reset the status
resolvePendingActionAlways(st, agentId, actionId, resolution, t) ==
    LET actions == getPendingActions(st.pending, agentId)
        updatedActions == SelectSeq(actions, LAMBDA a : a.id # actionId)
    IN [pending |-> IF \E i \in 1..Len(actions) : actions[i].id = actionId
                    THEN MapSet(st.pending, agentId,
                                updatedActions)
                    ELSE st.pending,
        agents |-> IF Len(updatedActions) = 0
                   THEN updateAgentStatus(st.agents, agentId, "idle", t)
                   ELSE st.agents]

\* resolvePendingAction: the resolved copy of the action is made and dropped,
\* so the resolution leaves no trace in the store
resolvePendingAction(st, agentId, actionId, resolution, t) ==
    LET actions == getPendingActions(st.pending, agentId)
    IN IF ~\E i \in 1..Len(actions) : actions[i].id = actionId THEN st
       ELSE LET updatedActions == SelectSeq(actions, LAMBDA a : a.id # actionId)
            IN [pending |-> MapSet(st.pending, agentId,
                               updatedActions),
                agents |-> IF Len(updatedActions) = 0
                           THEN updateAgentStatus(st.agents, agentId, "idle", t)
                           ELSE st.agents]

\* allActions.push(...actions) for the queues in Map order
RECURSIVE allActions(_, _)
allActions(pending, i) ==
    IF i > Len(pending) THEN <<>>
    ELSE pending[i].value \o allActions(pending, i + 1)

\* Array.prototype.sort((a, b) => a.timestamp - b.timestamp): stable
RECURSIVE sortByTimestamp(_)
sortByTimestamp(actions) ==
    IF actions = <<>> THEN <<>>
    ELSE LET first == CHOOSE i \in 1..Len(actions) :
                         /\ \A j \in 1..Len(actions) :
                               actions[i].timestamp <= actions[j].timestamp
                         /\ \A j \in 1..(i - 1) :
                               actions[j].timestamp # actions[i].timestamp
         IN <<actions[first]>>
              \o sortByTimestamp(SubSeq(actions, 1, first - 1)
                                    \o SubSeq(actions, first + 1, Len(actions)))

\* getAllPendingActions
getAllPendingActions(pending) == sortByTimestamp(allActions(pending, 1))

\* clearPendingActions
clearPendingActions(st, agentId, t) ==
    [pending |-> MapDelete(st.pending, agentId),
     agents |-> updateAgentStatus(st.agents, agentId, "idle", t)]

\* the inputs of the agent store's operations; an action comes from the caller
\* with the id the caller gave it
AgentIdsGiven == 1..(nextAgentId - 1)
ActionIds == 1..2
Resolutions == {"allow", ""}
\* a Partial<Agent>: a new model, or a new id
AgentUpdates == {[model |-> "gpt-4o"], [id |-> 2]}
StatusInputs == {"idle", "executing"}

chatVars == <<conversations, activeConversationId, heap, nextConvId, nextMsgId>>

\* a call from the UI to the agent store or the workspace store
AgentCall ==
    /\ UICall
    /\ now' = now

SetAgentStore(st) ==
    /\ agents' = st.agents
    /\ pendingActions' = st.pending

UpdateAgent(agentId, update) ==
    /\ AgentCall
    /\ agents' = updateAgent(agents, agentId, update, now')
    /\ Wrote(IF MapHas(agents, agentId) THEN {"agent"} ELSE {})
    /\ UNCHANGED <<chatVars, turn, running, nextAgentId, tree, hydration, reads, env, pendingActions,
                   workspaceStore, resolveCalls>>

UpdateAgentStatus(agentId, status) ==
    /\ AgentCall
    /\ agents' = updateAgentStatus(agents, agentId, status, now')
    /\ Wrote(IF MapHas(agents, agentId) THEN {"agent"} ELSE {})
    /\ UNCHANGED <<chatVars, turn, running, nextAgentId, tree, hydration, reads, env, pendingActions,
                   workspaceStore, resolveCalls>>

DeleteAgent(agentId) ==
    /\ AgentCall
    /\ SetAgentStore(deleteAgent(AgentStore, agentId))
    /\ Wrote({"agent"})
    /\ UNCHANGED <<chatVars, turn, running, nextAgentId, tree, hydration, reads, env, workspaceStore, resolveCalls>>

\* clearAllAgents
ClearAllAgents ==
    /\ AgentCall
    /\ agents' = <<>>
    /\ pendingActions' = <<>>
    /\ Wrote({"agent"})
    /\ UNCHANGED <<chatVars, turn, running, nextAgentId, tree, hydration, reads, env, workspaceStore, resolveCalls>>

AddPendingAction(agentId, actionId) ==
    /\ AgentCall
    /\ SetAgentStore(addPendingAction(AgentStore,
            [id |-> actionId, agentId |-> agentId, type |-> "tool_approval",
             status |-> "pending", timestamp |-> now'], now'))
    /\ resolveCalls' = {IF call.agentId = agentId /\ call.actionId = actionId
                         THEN [call EXCEPT !.added = TRUE] ELSE call : call \in resolveCalls}
    /\ Wrote({"agent"})
    /\ UNCHANGED <<chatVars, turn, running, nextAgentId, tree, hydration, reads, env, workspaceStore>>

\* the history after one more call: for each agent and action id whether a
\* call found the action in the queue (hit), whether there was a second call
\* (again), and whether an action with that id was added to the agent's queue
\* after the first call (added)
NoteResolveCall(agentId, actionId) ==
    IF \E call \in resolveCalls : call.agentId = agentId /\ call.actionId = actionId
    THEN {IF call.agentId = agentId /\ call.actionId = actionId
          THEN [call EXCEPT !.again = TRUE] ELSE call : call \in resolveCalls}
    ELSE resolveCalls \cup
            {[agentId |-> agentId, actionId |-> actionId, again |-> FALSE, added |-> FALSE,
              hit |-> \E i \in 1..Len(getPendingActions(pendingActions, agentId)) :
                         getPendingActions(pendingActions, agentId)[i].id = actionId]}

ResolvePendingAction(agentId, actionId, resolution) ==
    /\ AgentCall
    /\ SetAgentStore(resolvePendingAction(AgentStore, agentId, actionId, resolution, now'))
    /\ resolveCalls' = NoteResolveCall(agentId, actionId)
    /\ Wrote(IF \E i \in 1..Len(getPendingActions(pendingActions, agentId)) :
                   getPendingActions(pendingActions, agentId)[i].id = actionId
             THEN {"agent"} ELSE {})
    /\ UNCHANGED <<chatVars, turn, running, nextAgentId, tree, hydration, reads, env, workspaceStore>>

ClearPendingActions(agentId) ==
    /\ AgentCall
    /\ SetAgentStore(clearPendingActions(AgentStore, agentId, now'))
    /\ Wrote({"agent"})
    /\ UNCHANGED <<chatVars, turn, running, nextAgentId, tree, hydration, reads, env, workspaceStore, resolveCalls>>

\* the agent store and a chat turn of one of its agents
AgentNext ==
    \/ Tick
    \/ \E config \in AgentConfigs : CreateAgent(config)
    \/ \E a \in AgentIdsGiven, u \in AgentUpdates : UpdateAgent(a, u)
    \/ \E a \in AgentIdsGiven, status \in StatusInputs : UpdateAgentStatus(a, status)
    \/ \E a \in AgentIdsGiven : DeleteAgent(a)
    \/ ClearAllAgents
    \/ \E a \in AgentIdsGiven, id \in ActionIds : AddPendingAction(a, id)
    \/ \E a \in AgentIdsGiven, id \in ActionIds, r \in Resolutions :
         ResolvePendingAction(a, id, r)
    \/ \E a \in AgentIdsGiven : ClearPendingActions(a)
    \/ \E w \in WorkspaceIds : CreateConversation(w, 1, NoId, {})
    \/ \E t \in FirstTurn, a \in AgentIdsGiven, c \in ConvInputs :
         SendMessage(t, a, c, <<"h">>)
    \/ \E t \in FirstTurn : TurnStep(t)

SpecAgents == InitHydrated /\ [][AgentNext]_vars

\* chat turns side by side: sendMessage is called while another invocation is
\* suspended; invocations are numbered in the order of the calls
ConcurrentNext ==
    \/ Tick
    \/ \E config \in AgentConfigs : CreateAgent(config)
    \/ \E w \in WorkspaceIds : CreateConversation(w, 1, NoId, {})
    \/ \E t \in Turns, a \in AgentIdsGiven, c \in ConvInputs :
         /\ \A earlier \in 1..(t - 1) : turn[earlier].pc # "new"
         /\ SendMessage(t, a, c, <<"h">>)
    \/ \E t \in Turns : TurnStep(t)

SpecConcurrent == InitWorkspace /\ [][ConcurrentNext]_vars

\* two turns on stores that hold a workspace, two agents and two conversations
\* without messages, as createWorkspace, createAgent and createConversation
\* leave them; every store has written its key
DisjointAgents ==
    {createAgent(createAgent(<<>>, 1, c1, 0), 2, c2, 0) : c1, c2 \in AgentConfigs}
DisjointConversations ==
    createConversation(
        createConversation([convs |-> <<>>, heap |-> <<>>], 1, 1, 1, NoId, {}, 0),
        2, 1, 2, NoId, {}, 0).convs

InitDisjoint ==
    /\ conversations = DisjointConversations
    /\ activeConversationId = 2
    /\ heap = <<>>
    /\ agents \in DisjointAgents
    /\ turn = [t \in Turns |-> NewTurn]
    /\ running = NoTurn
    /\ now = 0
    /\ nextConvId = 3
    /\ nextMsgId = 1
    /\ nextAgentId = 3
    /\ ops = 0
    /\ tree = TreeOff
    /\ pendingActions = <<>>
    /\ workspaces \in {createWorkspace(<<>>, 1, config, 0) : config \in WorkspaceConfigs}
    /\ activeWorkspaceId = 1
    /\ nextWorkspaceId = 2
    /\ resolveCalls = {}
    /\ hydration = "ok"
    /\ storage = [name \in Stores |-> InStep]
    /\ reads = [name \in Stores |-> {}]
    /\ env \in Envs

\* the first call is for agent 1 and conversation 1, the second for the other
\* agent and the other conversation (the other choices of two agents and two
\* conversations are the same up to the names); time passes between the steps
DisjointNext ==
    \/ Tick
    \/ SendMessage(1, 1, 1, <<"h">>)
    \/ /\ turn[1].pc # "new"
       /\ SendMessage(2, 2, 2, <<"h">>)
    \/ \E t \in Turns : TurnStep(t)

SpecDisjoint == InitDisjoint /\ [][DisjointNext]_vars

\* ------------------------------------------------ the workspace store
\* updateWorkspace
updateWorkspace(ws, workspaceId, update, t) ==
    IF ~MapHas(ws, workspaceId) THEN ws
    ELSE MapSet(ws, workspaceId,
            Spread(Spread(MapGet(ws, workspaceId), update), [updatedAt |-> t]))

\* deleteWorkspace
deleteWorkspace(ws, workspaceId) == MapDelete(ws, workspaceId)

\* addAgentToWorkspace
addAgentToWorkspace(ws, workspaceId, agentId, t) ==
    IF ~MapHas(ws, workspaceId) THEN ws
    ELSE LET workspace == MapGet(ws, workspaceId)
         IN IF \E i \in 1..Len(workspace.agentIds) : workspace.agentIds[i] = agentId
            THEN ws
            ELSE MapSet(ws, workspaceId,
                    [workspace EXCEPT !.agentIds = Append(@, agentId), !.updatedAt = t])

\* removeAgentFromWorkspace
removeAgentFromWorkspace(ws, workspaceId, agentId, t) ==
    IF ~MapHas(ws, workspaceId) THEN ws
    ELSE LET workspace == MapGet(ws, workspaceId)
         IN MapSet(ws, workspaceId,
                [workspace EXCEPT !.agentIds = SelectSeq(@, LAMBDA id : id # agentId),
                                  !.updatedAt = t])

\* a Partial<Workspace>: a new name, a new list of agent ids, or a new id
WorkspaceUpdates == {[name |-> <<"v">>], [agentIds |-> <<1, 1>>], [id |-> 2]}
WorkspaceIdsGiven == 1..(nextWorkspaceId - 1)

agentVars == <<agents, pendingActions, nextAgentId, resolveCalls>>

CreateWorkspace(config) ==
    /\ AgentCall
    /\ workspaces' = createWorkspace(workspaces, nextWorkspaceId, config, now')
    /\ activeWorkspaceId' = nextWorkspaceId
    /\ nextWorkspaceId' = nextWorkspaceId + 1
    /\ Wrote({"workspace"})
    /\ UNCHANGED <<chatVars, agentVars, turn, running, tree, hydration, reads, env>>

UpdateWorkspace(workspaceId, update) ==
    /\ AgentCall
    /\ workspaces' = updateWorkspace(workspaces, workspaceId, update, now')
    /\ Wrote(IF MapHas(workspaces, workspaceId) THEN {"workspace"} ELSE {})
    /\ UNCHANGED <<chatVars, agentVars, turn, running, tree, hydration, reads, env, activeWorkspaceId,
                   nextWorkspaceId>>

\* deleteWorkspace as it would be if it always cleared the active workspace
DeleteWorkspaceClearActive(workspaceId) ==
    /\ AgentCall
    /\ workspaces' = deleteWorkspace(workspaces, workspaceId)
    /\ activeWorkspaceId' = NoId
    /\ Wrote({"workspace"})
    /\ UNCHANGED <<chatVars, agentVars, turn, running, tree, hydration, reads, env, nextWorkspaceId>>

DeleteWorkspace(workspaceId) ==
    /\ AgentCall
    /\ workspaces' = deleteWorkspace(workspaces, workspaceId)
    /\ activeWorkspaceId' = IF activeWorkspaceId = workspaceId THEN NoId
                            ELSE activeWorkspaceId
    /\ Wrote({"workspace"})
    /\ UNCHANGED <<chatVars, agentVars, turn, running, tree, hydration, reads, env, nextWorkspaceId>>

\* setActiveWorkspace: the id is stored as it comes, nothing is looked up
SetActiveWorkspace(workspaceId) ==
    /\ AgentCall
    /\ activeWorkspaceId' = workspaceId
    /\ Wrote({"workspace"})
    /\ UNCHANGED <<chatVars, agentVars, turn, running, tree, hydration, reads, env, workspaces,
                   nextWorkspaceId>>

\* clearAllWorkspaces
ClearAllWorkspaces ==
    /\ AgentCall
    /\ workspaces' = <<>>
    /\ activeWorkspaceId' = NoId
    /\ Wrote({"workspace"})
    /\ UNCHANGED <<chatVars, agentVars, turn, running, tree, hydration, reads, env, nextWorkspaceId>>

AddAgentToWorkspace(workspaceId, agentId) ==
    /\ AgentCall
    /\ workspaces' = addAgentToWorkspace(workspaces, workspaceId, agentId, now')
    /\ Wrote(IF /\ MapHas(workspaces, workspaceId)
                /\ \A i \in 1..Len(MapGet(workspaces, workspaceId).agentIds) :
                      MapGet(workspaces, workspaceId).agentIds[i] # agentId
             THEN {"workspace"} ELSE {})
    /\ UNCHANGED <<chatVars, agentVars, turn, running, tree, hydration, reads, env, activeWorkspaceId,
                   nextWorkspaceId>>

RemoveAgentFromWorkspace(workspaceId, agentId) ==
    /\ AgentCall
    /\ workspaces' = removeAgentFromWorkspace(workspaces, workspaceId, agentId, now')
    /\ Wrote(IF MapHas(workspaces, workspaceId) THEN {"workspace"} ELSE {})
    /\ UNCHANGED <<chatVars, agentVars, turn, running, tree, hydration, reads, env, activeWorkspaceId,
                   nextWorkspaceId>>

\* the workspace store next to the agents and the conversations of its workspaces
WorkspaceNext ==
    \/ Tick
    \/ \E config \in WorkspaceConfigs : CreateWorkspace(config)
    \/ \E w \in WorkspaceIdsGiven, u \in WorkspaceUpdates : UpdateWorkspace(w, u)
    \/ \E w \in WorkspaceIdsGiven : DeleteWorkspace(w)
    \/ \E w \in 0..nextWorkspaceId : SetActiveWorkspace(w)
    \/ ClearAllWorkspaces
    \/ \E w \in WorkspaceIdsGiven, a \in AgentIdsGiven : AddAgentToWorkspace(w, a)
    \/ \E w \in WorkspaceIdsGiven, a \in AgentIdsGiven : RemoveAgentFromWorkspace(w, a)
    \/ \E config \in AgentConfigs : CreateAgent(config)
    \/ \E a \in AgentIdsGiven : DeleteAgent(a)
    \/ \E w \in WorkspaceIds : CreateConversation(w, 1, NoId, {})
    \/ \E w \in WorkspaceIds, p \in ConvInputs : CreateConversation(w, 1, p, {0})
    \/ \E c \in ConvInputs : AddMessage(c, "user", <<"h">>)
    \/ \E c \in ConvInputs : DeleteConversation(c)

SpecWorkspace == InitHydrated /\ [][WorkspaceNext]_vars

\* the stores after createWorkspace, createAgent in that workspace,
\* createConversation, addMessage and createConversation as a branch at message 0
CascadeConversations ==
    LET root == createConversation([convs |-> <<>>, heap |-> <<>>], 1, 1, 1, NoId, {}, 0)
        message == createTextMessage(1, "user", <<"h">>, NoId, 0)
        filled == addMessage([root EXCEPT !.heap = HeapPut(@, 1, message)], 1, 1, 0)
    IN createConversation(filled, 2, 1, 1, 1, {0}, 0)

InitCascade ==
    /\ conversations = CascadeConversations.convs
    /\ heap = CascadeConversations.heap
    /\ activeConversationId = 2
    /\ agents \in {createAgent(<<>>, 1, config, 0) : config \in AgentConfigs}
    /\ workspaces \in {createWorkspace(<<>>, 1, config, 0) : config \in WorkspaceConfigs}
    /\ activeWorkspaceId = 1
    /\ turn = [t \in Turns |-> NewTurn]
    /\ running = NoTurn
    /\ now = 0
    /\ nextConvId = 3
    /\ nextMsgId = 2
    /\ nextAgentId = 2
    /\ nextWorkspaceId = 2
    /\ ops = 0
    /\ tree = TreeOff
    /\ pendingActions = <<>>
    /\ resolveCalls = {}
    /\ hydration = "ok"
    /\ storage = [name \in Stores |-> InStep]
    /\ reads = [name \in Stores |-> {}]
    /\ env \in Envs

\* workspaces and conversations are deleted while others are made and filled
CascadeNext ==
    \/ Tick
    \/ \E config \in WorkspaceConfigs : CreateWorkspace(config)
    \/ \E w \in WorkspaceIdsGiven : DeleteWorkspace(w)
    \/ \E w \in WorkspaceIds, p \in ConvInputs : CreateConversation(w, 1, p, {0})
    \/ \E c \in ConvInputs : AddMessage(c, "user", <<"h">>)
    \/ \E c \in ConvInputs : DeleteConversation(c)

SpecCascade == InitCascade /\ [][CascadeNext]_vars

\* ------------------------------------------------- the conversation store in time
\* the conversation store driven from the UI, the calls at different times
ClockNext ==
    \/ Tick
    \/ \E w \in WorkspaceIds : CreateConversation(w, 1, NoId, {})
    \/ \E c \in ConvInputs : AddMessage(c, "user", <<"h">>)
    \/ \E c \in ConvInputs, m \in 1..nextMsgId, u \in Updates : UpdateMessage(c, m, u)
    \/ \E c \in ConvInputs, b \in Blocks : AppendToLastMessage(c, b)
    \/ \E c \in ConvInputs, i \in ContentIndexes, b \in Blocks :
         UpdateLastMessageContent(c, i, b)
    \/ \E c \in ConvInputs, title \in Titles : UpdateConversationTitle(c, title)

SpecClock == InitHydrated /\ [][ClockNext]_vars

\* ------------------------------------------------------------ persistence
\* The persist middleware writes partialize(state) to storage as JSON and, when
\* the page loads, hands what JSON.parse returns to merge. A parsed value is
\* modelled by its kind: absent (undefined), a number, an object without
\* indexed properties, or an array of items; an item is a pair [key, value], a
\* one-element array [key], an object, or a number.
JsonArray(items) == [kind |-> "array", items |-> items]
Pair(key, value) == [kind |-> "pair", key |-> key, value |-> value]

\* JSON.parse(JSON.stringify(message))
jsonMessage(message) ==
    [message EXCEPT !.content = [i \in 1..Len(@) |-> IF @[i] \in {Hole, undefined} THEN Null ELSE @[i]]]

\* Array.from(map.entries()) of a Map of flat records, through JSON
entries(map) == JsonArray([i \in 1..Len(map) |-> Pair(map[i].key, EntryValue(map[i]))])

\* JSON.parse(JSON.stringify(undefined)) inside an array, and of null
JsonNull == [kind |-> "null"]

\* partialize of the chat store through JSON: the messages are written out as
\* values, once for every conversation that holds them; a value that is no
\* conversation (undefined or null, after a rehydration from foreign data) is
\* written as null
partializeChat(cs, active) ==
    [kind |-> "object",
     fields |-> [conversations |->
                    JsonArray([i \in 1..Len(cs.convs) |->
                        Pair(cs.convs[i].key,
                             IF "messages" \in DOMAIN EntryValue(cs.convs[i])
                             THEN [EntryValue(cs.convs[i]) EXCEPT !.messages =
                                     [j \in 1..Len(@) |-> jsonMessage(cs.heap[@[j]])]]
                             ELSE JsonNull)]),
                 activeConversationId |-> active]]

\* persistedState?.name
Field(persistedState, name) ==
    IF persistedState.kind = "object" /\ name \in DOMAIN persistedState.fields
    THEN persistedState.fields[name]
    ELSE Absent

\* the value a Map holds for a key that was set to undefined
Undefined == [undefined |-> TRUE]

\* new Map(items): each item must be an object, its properties 0 and 1 are the
\* key and the value (undefined when the item has none); anything else throws
\* a TypeError
RECURSIVE newMap(_, _, _)
newMap(items, i, map) ==
    IF i > Len(items) THEN [threw |-> FALSE, map |-> map]
    ELSE CASE items[i].kind = "pair"
                -> newMap(items, i + 1, MapSet(map, items[i].key, items[i].value))
           [] items[i].kind = "single"
                -> newMap(items, i + 1, MapSet(map, items[i].key, Undefined))
           [] items[i].kind = "object"
                -> newMap(items, i + 1, MapSet(map, NoId, Undefined))
           [] OTHER -> [threw |-> TRUE, map |-> <<>>]

\* merge: Array.isArray(persistedState?.name) ? new Map(persistedState.name) : new Map()
merge(persistedState, name) ==
    LET field == Field(persistedState, name)
    IN IF field.kind = "array" THEN newMap(field.items, 1, <<>>)
       ELSE [threw |-> FALSE, map |-> <<>>]

\* partialize of the agent store and of the workspace store through JSON
partializeAgents(ags, pending) ==
    [kind |-> "object",
     fields |-> [agents |-> entries(ags), pendingActions |-> entries(pending)]]

partializeWorkspaces(ws, active) ==
    [kind |-> "object",
     fields |-> [workspaces |-> entries(ws), activeWorkspaceId |-> active]]

\* what the key of a store holds
StorageItem(name) ==
    IF storage[name] # InStep THEN storage[name]
    ELSE CASE name = "chat" -> partializeChat(CS, activeConversationId)
           [] name = "agent" -> partializeAgents(agents, pendingActions)
           [] name = "workspace" -> partializeWorkspaces(workspaces, activeWorkspaceId)

\* name in persistedState
HasField(persistedState, name) ==
    persistedState.kind = "object" /\ name \in DOMAIN persistedState.fields

\* the values of a rehydrated Map are conversations
Conversations(map) == \A i \in 1..Len(map) : "messages" \in DOMAIN map[i].value

\* the conversations of a rehydrated Map with their message objects, each a
\* new object, in the heap
RECURSIVE intoHeap(_, _, _)
intoHeap(map, i, cs) ==
    IF i > Len(map) THEN cs
    ELSE LET messages == map[i].value.messages
             base == Len(cs.heap)
         IN intoHeap(map, i + 1,
                [convs |-> Append(cs.convs,
                              [map[i] EXCEPT !.value.messages = [j \in 1..Len(@) |-> base + j]]),
                 heap |-> cs.heap \o messages])

\* persisted data that the stores did not write: none, or a collection field
\* that is missing, not an array, or an array of other things than pairs
ForeignFields ==
    {Absent, [kind |-> "number"], [kind |-> "object"],
     JsonArray(<<[kind |-> "number"]>>), JsonArray(<<[kind |-> "object"]>>),
     JsonArray(<<[kind |-> "single", key |-> 1]>>)}
ForeignStates ==
    {Absent} \cup {[kind |-> "object", fields |-> [conversations |-> field]] :
                      field \in ForeignFields}

\* The page is loaded while the key of the chat store holds chatItem. The
\* modules are evaluated again: every store is created with its initial state
\* and starts to read its key (the read returns what the key holds now); the
\* sendMessage invocations of the page before are gone.
PageLoadWith(chatItem) ==
    /\ UICall
    /\ hydration \in {"none", "ok"}
    /\ storage' = [name \in Stores |->
                      IF name = "chat" THEN chatItem ELSE StorageItem(name)]
    /\ reads' = [name \in Stores |->
                    {IF name = "chat" THEN chatItem ELSE StorageItem(name)}]
    /\ conversations' = <<>>
    /\ heap' = <<>>
    /\ activeConversationId' = NoId
    /\ agents' = <<>>
    /\ pendingActions' = <<>>
    /\ workspaces' = <<>>
    /\ activeWorkspaceId' = NoId
    /\ turn' = [t \in Turns |-> NewTurn]
    /\ UNCHANGED <<running, now, nextConvId, nextMsgId, nextAgentId, tree, hydration, env,
                   nextWorkspaceId, resolveCalls>>

\* the page is loaded again
PageLoad == PageLoadWith(StorageItem("chat"))

\* the page is loaded when the key of the chat store holds data that the store
\* did not write
PageLoadFrom(persistedState) == PageLoadWith(persistedState)

\* what the keys hold after the rehydration of store `name`: persist of
\* zustand 4 writes the merged state back, persist of zustand 5 writes nothing
\* when no migration ran; the repository does not pin the version
Rehydrated(name) ==
    \/ storage' = [storage EXCEPT ![name] = StorageItem(name)]
    \/ storage' = [storage EXCEPT ![name] = InStep]

\* The read of the chat store's key settles: merge, then the store takes the
\* merged state (this set does not write to storage). When merge throws, the
\* store keeps the state it has.
RehydrateChat ==
    /\ running = NoTurn
    /\ reads["chat"] # {}
    /\ LET persistedState == CHOOSE item \in reads["chat"] : TRUE
           merged == merge(persistedState, "conversations")
       IN IF merged.threw
          THEN /\ hydration' = "threw"
               /\ UNCHANGED <<conversations, heap, activeConversationId, storage>>
          ELSE /\ IF Conversations(merged.map)
                  THEN LET cs == intoHeap(merged.map, 1, [convs |-> <<>>, heap |-> <<>>])
                       IN /\ conversations' = cs.convs
                          /\ heap' = cs.heap
                          /\ hydration' = "ok"
                          /\ Rehydrated("chat")
                  ELSE /\ conversations' = merged.map
                       /\ heap' = <<>>
                       /\ hydration' = "foreign"
                       /\ Rehydrated("chat")
               /\ activeConversationId' =
                     IF HasField(persistedState, "activeConversationId")
                     THEN persistedState.fields.activeConversationId
                     ELSE activeConversationId
    /\ reads' = [reads EXCEPT !["chat"] = {}]
    /\ UNCHANGED <<agents, pendingActions, workspaceStore, turn, running, now, nextConvId,
                   nextMsgId, nextAgentId, ops, tree, env, resolveCalls>>

\* the read of the agent store's key settles
RehydrateAgents ==
    /\ running = NoTurn
    /\ reads["agent"] # {}
    /\ LET persistedState == CHOOSE item \in reads["agent"] : TRUE
           mergedAgents == merge(persistedState, "agents")
           mergedActions == merge(persistedState, "pendingActions")
       IN IF mergedAgents.threw \/ mergedActions.threw
          THEN UNCHANGED <<agents, pendingActions, storage>>
          ELSE /\ agents' = mergedAgents.map
               /\ pendingActions' = mergedActions.map
               /\ Rehydrated("agent")
    /\ reads' = [reads EXCEPT !["agent"] = {}]
    /\ UNCHANGED <<chatVars, workspaceStore, turn, running, now, nextAgentId, ops, tree,
                   hydration, env, resolveCalls>>

\* the read of the workspace store's key settles
RehydrateWorkspaces ==
    /\ running = NoTurn
    /\ reads["workspace"] # {}
    /\ LET persistedState == CHOOSE item \in reads["workspace"] : TRUE
           merged == merge(persistedState, "workspaces")
       IN IF merged.threw
          THEN UNCHANGED <<workspaces, activeWorkspaceId, storage>>
          ELSE /\ workspaces' = merged.map
               /\ activeWorkspaceId' =
                     IF HasField(persistedState, "activeWorkspaceId")
                     THEN persistedState.fields.activeWorkspaceId
                     ELSE activeWorkspaceId
               /\ Rehydrated("workspace")
    /\ reads' = [reads EXCEPT !["workspace"] = {}]
    /\ UNCHANGED <<chatVars, agentVars, turn, running, now, nextWorkspaceId, ops, tree,
                   hydration, env>>

\* the reads that a page load started settle, one by one in any order
Rehydrate ==
    \/ RehydrateChat
    \/ RehydrateAgents
    \/ RehydrateWorkspaces

\* the stores are filled and the page is loaded again, the UI calling the
\* stores while the reads are under way; after a rehydration from data that do
\* not hold conversations, or one that threw, the run ends
PersistNext ==
    \/ Tick
    \/ PageLoad
    \/ \E persistedState \in ForeignStates : PageLoadFrom(persistedState)
    \/ Rehydrate
    \/ /\ hydration \in {"none", "ok"}
       /\ \/ \E w \in WorkspaceIds : CreateConversation(w, 1, NoId, {})
          \/ \E w \in WorkspaceIds, p \in ConvInputs : CreateConversation(w, 1, p, {0})
          \/ \E c \in ConvInputs : AddMessage(c, "user", <<"h">>)
          \/ \E c \in ConvInputs, i \in ContentIndexes \cup {2}, b \in Blocks :
               UpdateLastMessageContent(c, i, b)
          \/ \E config \in AgentConfigs : CreateAgent(config)
          \/ \E a \in AgentIdsGiven, id \in ActionIds : AddPendingAction(a, id)
          \/ \E config \in WorkspaceConfigs : CreateWorkspace(config)

SpecPersist == Init /\ [][PersistNext]_vars

\* ================================================================ claims

\* the messages of msgs whose (0-based) index is at most k, in order
UpTo(msgs, k) == [i \in 1..Min(Max(k + 1, 0), Len(msgs)) |-> msgs[i]]

\* C1: whenever createConversation is called with a parent that resolves and a
\* branch point k, the new conversation's messages are exactly the parent's
\* messages with index <= k as the parent stands at the call, for every integer
\* k: all of them when k >= len, none when k < 0.
C1_BranchCopiesUpToK ==
    [][\A c \in MapKeys(conversations') \ MapKeys(conversations) :
         \A w \in WorkspaceIds, p \in MapKeys(conversations), k \in UNION BranchPoints :
            CreateConversation(w, 1, p, {k})
               => getMessages(conversations', heap', c)
                    = UpTo(getMessages(conversations, heap, p), k)]_vars

\* an operation of the UI or a step of a chat turn that is aimed at conversation p
OperationOn(p) ==
    \/ AddMessage(p, "user", <<"h">>)
    \/ \E m \in 1..nextMsgId, u \in Updates : UpdateMessage(p, m, u)
    \/ \E b \in Blocks : AppendToLastMessage(p, b)
    \/ \E i \in ContentIndexes, b \in Blocks : UpdateLastMessageContent(p, i, b)
    \/ \E title \in Titles : UpdateConversationTitle(p, title)
    \/ DeleteConversation(p)
    \/ \E t \in Turns : turn[t].conversationId = p /\ TurnStep(t)

\* C2: no operation on a conversation p (addMessage, updateMessage,
\* appendToLastMessage, updateLastMessageContent, updateConversationTitle, a
\* step of a chat turn streaming into p, deleteConversation(p)) changes the
\* message sequence or the content of any message of another conversation c,
\* in particular of a branch c that was created from p: a step after which c
\* is gone or reads differently is not an operation on any p other than c.
C2_ParentEditsDoNotReachBranch ==
    [][<<conversations, heap>>' # <<conversations, heap>>
         => \A c \in MapKeys(conversations) :
               (\/ ~MapHas(conversations', c)
                \/ getMessages(conversations', heap', c)
                      # getMessages(conversations, heap, c))
                  => \A p \in ConvInputs \ {c} : ~OperationOn(p)]_vars

\* a branch and its parent hold a message with the same id at the same place,
\* and the parent's has been edited since: the two no longer agree
C2_Witness ==
    \E i, j \in 1..Len(conversations) :
        /\ conversations[i].value.parentId = conversations[j].value.id
        /\ \E n \in 1..Min(Len(conversations[i].value.messages), Len(conversations[j].value.messages)) :
              /\ heap[conversations[i].value.messages[n]].id = heap[conversations[j].value.messages[n]].id
              /\ heap[conversations[i].value.messages[n]] # heap[conversations[j].value.messages[n]]

\* ------------------------------------------------------------ chat turns
\* the conversation a turn writes to, its agent's status, its assistant message
TurnMessages(t) == getMessages(conversations, heap, turn[t].conversationId)
TurnStatus(t) == MapGet(agents, turn[t].agentId).status
HasAssistant(t) == FindMessage(TurnMessages(t), turn[t].messageId) # 0
Assistant(t) == TurnMessages(t)[FindMessage(TurnMessages(t), turn[t].messageId)]

\* d1 + ... + dn
RECURSIVE Concat(_)
Concat(deltas) == IF deltas = <<>> THEN <<>> ELSE Head(deltas) \o Concat(Tail(deltas))

\* the content of a message that received the deltas: nothing, or one text block
Streamed(deltas) ==
    IF deltas = <<>> THEN <<>> ELSE <<[type |-> "text", text |-> Concat(deltas)]>>

\* the user message of the turn is in the conversation, right before the
\* assistant message when there is one
UserMessageStored(msgs, t) ==
    \E i \in 1..Len(msgs) :
        /\ msgs[i].role = "user"
        /\ msgs[i].content = <<[type |-> "text", text |-> turn[t].userText]>>
        /\ turn[t].messageId # NoId => (i < Len(msgs) /\ msgs[i + 1].id = turn[t].messageId)

\* C5: the context a chat turn sends to the provider is one (role, text) pair
\* per message of the conversation as it stands right after the user message
\* was appended: the user message once, as the last pair.
C5_ContextIsConversation ==
    \A t \in Turns :
        turn[t].pc = "addAssistant"
            => turn[t].aiMessages = toAISDKMessages(TurnMessages(t)).messages

\* C6: after each delta of a turn (no other operation touching the assistant
\* message) the assistant message has exactly one content block, a text block
\* whose text is the concatenation of the deltas received so far.
C6_OneBlockOfAllDeltas ==
    \A t \in Turns :
        Len(turn[t].deltas) >= 1
            => /\ HasAssistant(t)
               /\ Len(Assistant(t).content) = 1
               /\ Assistant(t).content[1] = [type |-> "text", text |-> Concat(turn[t].deltas)]

\* two non-empty deltas were applied
C6_Witness ==
    \E t \in Turns :
        /\ Len(turn[t].deltas) = 2
        /\ \A i \in 1..2 : turn[t].deltas[i] # <<>>
        /\ Assistant(t).content = <<[type |-> "text", text |-> Concat(turn[t].deltas)]>>

\* C7: a turn that completes writes to the stores in this order: status
\* thinking; user message; empty assistant message with streaming = true; status
\* streaming; the deltas; metadata {streaming: false, stopReason: end_turn};
\* status idle. At each position of the turn the stores show exactly the
\* effects before that position.
C7_EffectsInOrder ==
    \A t \in Turns :
        LET pc == turn[t].pc
            msgs == TurnMessages(t)
        IN /\ pc = "setThinking" => TurnStatus(t) = "idle"
           /\ pc = "addUser"
                => /\ TurnStatus(t) = "thinking"
                   /\ \A i \in 1..Len(msgs) : msgs[i].id < nextMsgId
           /\ pc \in {"context", "addAssistant"}
                => /\ TurnStatus(t) = "thinking"
                   /\ msgs # <<>>
                   /\ msgs[Len(msgs)].id = nextMsgId - 1
                   /\ msgs[Len(msgs)].role = "user"
                   /\ UserMessageStored(msgs, t)
           /\ pc = "setStreaming"
                => /\ TurnStatus(t) = "thinking"
                   /\ UserMessageStored(msgs, t)
                   /\ msgs[Len(msgs)].id = turn[t].messageId
                   /\ msgs[Len(msgs)].role = "assistant"
                   /\ msgs[Len(msgs)].content = <<>>
                   /\ msgs[Len(msgs)].metadata = {[streaming |-> TRUE]}
           /\ pc \in {"stream", "finalize"}
                => /\ TurnStatus(t) = "streaming"
                   /\ UserMessageStored(msgs, t)
                   /\ Assistant(t).content = Streamed(turn[t].deltas)
                   /\ Assistant(t).metadata = {[streaming |-> TRUE]}
           /\ pc \in {"setIdle", "done"}
                => /\ TurnStatus(t) = (IF pc = "done" THEN "idle" ELSE "streaming")
                   /\ UserMessageStored(msgs, t)
                   /\ Assistant(t).content = Streamed(turn[t].deltas)
                   /\ Assistant(t).metadata
                        = {[streaming |-> FALSE, stopReason |-> "end_turn"]}

\* a turn completed after at least one delta
C7_Witness ==
    \E t \in Turns :
        /\ turn[t].pc = "done"
        /\ Len(turn[t].deltas) >= 1
        /\ TurnStatus(t) = "idle"
        /\ Assistant(t).metadata = {[streaming |-> FALSE, stopReason |-> "end_turn"]}

\* of an id, and that conversation
IdsOf(list) == {list[i].id : i \in 1..Len(list)}
HasId(list, id) == id \in IdsOf(list)
ById(list, id) == list[CHOOSE i \in 1..Len(list) : list[i].id = id]

\* the conversation n parentId links above id, NoId when the chain ends before
RECURSIVE Up(_, _, _)
Up(convs, id, n) ==
    IF n = 0 \/ ~HasId(convs, id) THEN (IF HasId(convs, id) THEN id ELSE NoId)
    ELSE Up(convs, ById(convs, id).parentId, n - 1)

\* no conversation is its own transitive ancestor
Acyclic(convs) ==
    \A i \in 1..Len(convs), n \in 1..Len(convs) : Up(convs, convs[i].id, n) # convs[i].id

\* the number of times id is listed as a root or as a child of a node
Listed(built, id) ==
    Cardinality({i \in 1..Len(built.roots) : built.roots[i] = id})
      + Cardinality({<<n, i>> \in (DOMAIN built.nodes) \X (1..MaxTreeConvs + 1) :
                        /\ i <= Len(built.nodes[n].children)
                        /\ built.nodes[n].children[i] = id})

\* C3: buildConversationTree never drops a conversation: for any input (any
\* order, dangling parentId, self-parent, cycle) the nodes reachable from the
\* returned roots through children are the input conversations, each in
\* exactly one place.
C3_NoConversationDropped ==
    tree.pc = "built"
        => /\ Flatten(tree.built) = IdsOf(tree.convs)
           /\ Cardinality(Flatten(tree.built)) = Len(tree.convs)
           /\ \A id \in IdsOf(tree.convs) : Listed(tree.built, id) = 1

\* C4: in the forest buildConversationTree returns, a root has depth 0 and
\* every other node has its parent node's final depth plus 1, whatever the
\* order of the input (stated here for inputs without cycles).
C4_DepthIsParentDepthPlusOne ==
    (tree.pc = "built" /\ Acyclic(tree.convs))
        => \A i \in 1..Len(tree.convs) :
              LET c == tree.convs[i]
                  nodes == tree.built.nodes
              IN IF c.id \in Range(tree.built.roots)
                 THEN nodes[c.id].depth = 0
                 ELSE nodes[c.id].depth = nodes[c.parentId].depth + 1

\* C9: getAncestors terminates on every input: the walk never collects more
\* ancestors than there are conversations, also when the parentId links form
\* a cycle.
C9_WalkIsBounded ==
    tree.pc \in {"walk", "returned"} => Len(tree.ancestors) <= Len(tree.convs)

\* C10: for an acyclic collection getAncestors(id) returns conversations of the
\* collection, farthest first: each is the parent of the next, the last is the
\* direct parent of id whenever that parent resolves, the first has no parent
\* or one that does not resolve; without a resolvable parent it returns nothing.
C10_AncestorsFarthestFirst ==
    (tree.pc = "returned" /\ Acyclic(tree.convs))
        => LET a == tree.ancestors
               convs == tree.convs
               parentId == IF HasId(convs, tree.conversationId)
                           THEN ById(convs, tree.conversationId).parentId
                           ELSE NoId
           IN /\ \A i \in 1..Len(a) : HasId(convs, a[i].id) /\ a[i] = ById(convs, a[i].id)
              /\ \A i \in 1..(Len(a) - 1) : a[i + 1].parentId = a[i].id
              /\ IF parentId # NoId /\ HasId(convs, parentId)
                 THEN a # <<>> /\ a[Len(a)].id = parentId
                 ELSE a = <<>>
              /\ a # <<>> => (a[1].parentId = NoId \/ ~HasId(convs, a[1].parentId))

\* getAncestors returned a parent and a grandparent, the grandparent's own
\* parentId naming a conversation that is not in the collection
C10_Witness ==
    /\ tree.pc = "returned"
    /\ Acyclic(tree.convs)
    /\ Len(tree.ancestors) = 2
    /\ tree.ancestors[1].parentId # NoId
    /\ tree.ancestors[2].id = ById(tree.convs, tree.conversationId).parentId

\* the parentId of a conversation names something the collection does not hold
Dangling(convs, c) == c.parentId # NoId /\ ~HasId(convs, c.parentId)

\* C11: a conversation whose parentId is set but does not resolve is returned
\* by buildConversationTree as a root, once, with depth 0, and getAncestors of
\* it returns the empty sequence.
C11_DanglingParentIsRoot ==
    \A i \in 1..Len(tree.convs) :
        Dangling(tree.convs, tree.convs[i])
            => /\ tree.pc = "built"
                    => /\ Cardinality({k \in 1..Len(tree.built.roots) :
                                         tree.built.roots[k] = tree.convs[i].id}) = 1
                       /\ tree.built.nodes[tree.convs[i].id].depth = 0
               /\ (tree.pc = "returned" /\ tree.conversationId = tree.convs[i].id)
                    => tree.ancestors = <<>>

\* the tree was built from a conversation with an unresolved parent that has a
\* child of its own, listed before it
C11_Witness ==
    /\ tree.pc = "built"
    /\ \E i, j \in 1..Len(tree.convs) :
          /\ i < j
          /\ Dangling(tree.convs, tree.convs[j])
          /\ tree.convs[i].parentId = tree.convs[j].id
          /\ tree.convs[j].id \in Range(tree.built.roots)
          /\ tree.built.nodes[tree.convs[i].id].depth = 1

\* the id n parentId links above id (an id the collection need not hold); NoId
\* when the chain ends before
RECURSIVE LinkUp(_, _, _)
LinkUp(convs, id, n) ==
    IF n = 0 THEN id
    ELSE IF ~HasId(convs, id) THEN NoId
    ELSE LinkUp(convs, ById(convs, id).parentId, n - 1)

\* the chain of parentId links of conversation c reaches id
Reaches(convs, c, id) == \E n \in 1..Len(convs) : LinkUp(convs, c, n) = id

\* C12: for an acyclic collection getDescendants(id) returns exactly the
\* conversations whose chain of parentId links reaches id, each once, in
\* depth-first pre-order: the descendants of every conversation of the result
\* are the block that follows it, so a conversation comes after its parent,
\* before its descendants, and a subtree ends before the next sibling starts.
C12_DescendantsPreOrder ==
    (tree.pc \in {"descendants", "overflow"} /\ "descendants" \in DOMAIN tree
        /\ Acyclic(tree.convs))
        => LET d == tree.descendants
               convs == tree.convs
               below(i) == {j \in 1..Len(d) : Reaches(convs, d[j].id, d[i].id)}
           IN /\ tree.pc = "descendants"
              /\ \A i \in 1..Len(d) : HasId(convs, d[i].id) /\ d[i] = ById(convs, d[i].id)
              /\ {d[i].id : i \in 1..Len(d)}
                    = {c \in IdsOf(convs) : Reaches(convs, c, tree.conversationId)}
              /\ \A i, j \in 1..Len(d) : d[i].id = d[j].id => i = j
              /\ \A i \in 1..Len(d) : below(i) = (i + 1)..(i + Cardinality(below(i)))

\* getDescendants returned a child, its child, and then a second child
C12_Witness ==
    /\ tree.pc = "descendants"
    /\ Acyclic(tree.convs)
    /\ Len(tree.descendants) = 3
    /\ tree.descendants[2].parentId = tree.descendants[1].id
    /\ tree.descendants[3].parentId = tree.conversationId

\* the messages of the conversations of a set, all together
RECURSIVE CountOver(_)
CountOver(ids) ==
    IF ids = {} THEN 0
    ELSE LET id == CHOOSE x \in ids : TRUE
         IN TreeMessageCount(id) + CountOver(ids \ {id})

\* C13: countMessagesInTree(id) is the number of messages of conversation id
\* plus those of every conversation whose chain of parentId links reaches id
\* (the conversations of getDescendants(id)), each counted once; it is 0 when
\* id is not in the collection, whoever names id as a parent.
C13_CountIsOwnPlusDescendants ==
    tree.pc = "counted"
        => tree.count =
             IF HasId(tree.convs, tree.conversationId)
             THEN TreeMessageCount(tree.conversationId)
                  + CountOver({c \in IdsOf(tree.convs) :
                                  Reaches(tree.convs, c, tree.conversationId)})
             ELSE 0

\* messages were counted for a conversation with a child and a grandchild
C13_Witness ==
    /\ tree.pc = "counted"
    /\ HasId(tree.convs, tree.conversationId)
    /\ Len(getDescendants(tree.conversationId, tree.convs).list) = 2
    /\ \E c \in IdsOf(tree.convs) :
          /\ ById(tree.convs, c).parentId # tree.conversationId
          /\ Reaches(tree.convs, c, tree.conversationId)
    /\ tree.count > TreeMessageCount(tree.conversationId)

\* ------------------------------------------------------------- branching
\* C14: branchConversation(R, k, m) with R stored and 0 <= k < len(R.messages)
\* makes a new conversation B whose messages are R.messages[0..k] followed by
\* m (when a message is given), with parentId R, branchPoint k and R's
\* workspaceId and agentId; B becomes the active conversation and R's stored
\* record is the same as before.
C14_BranchThenExtend ==
    [][\A b \in MapKeys(conversations') \ MapKeys(conversations) :
         \A r \in MapKeys(conversations), k \in FromMessageIndexes, m \in NewMessages :
            (/\ 0 <= k
             /\ k < Len(MapGet(conversations, r).messages)
             /\ BranchConversation(r, k, m))
               => LET R == MapGet(conversations, r)
                      B == MapGet(conversations', b)
                      rest == IF m = {} THEN <<>>
                              ELSE <<createTextMessage(nextMsgId, "user",
                                        CHOOSE text \in m : TRUE, NoId, now)>>
                  IN /\ b = nextConvId
                     /\ getMessages(conversations', heap', b)
                          = UpTo(getMessages(conversations, heap, r), k) \o rest
                     /\ B.parentId = r
                     /\ B.branchPoint = {k}
                     /\ B.workspaceId = R.workspaceId
                     /\ B.agentId = R.agentId
                     /\ activeConversationId' = b
                     /\ MapHas(conversations', r)
                     /\ [MapGet(conversations', r) EXCEPT !.messages = <<>>]
                          = [R EXCEPT !.messages = <<>>]
                     /\ getMessages(conversations', heap', r)
                          = getMessages(conversations, heap, r)
                     /\ MapKeys(conversations') = MapKeys(conversations) \cup {b}]_vars

\* a branch at the second message of its parent, extended by the new message,
\* the parent holding more than the branch copied
C14_Witness ==
    \E i, j \in 1..Len(conversations) :
        /\ conversations[j].value.parentId = conversations[i].value.id
        /\ conversations[j].value.branchPoint = {0}
        /\ Len(conversations[i].value.messages) = 2
        /\ Len(conversations[j].value.messages) = 2
        /\ conversations[j].value.messages[1] = conversations[i].value.messages[1]
        /\ heap[conversations[j].value.messages[2]].content
              = <<[type |-> "text", text |-> <<"n">>]>>
        /\ activeConversationId = conversations[j].value.id

\* C15: every conversation that is created with a parentId that resolves also
\* gets a branchPoint, and that branchPoint is an index into the parent's
\* messages as they are at that moment: 0 <= branchPoint < length.
C15_BranchPointIsValidIndex ==
    [][\A c \in MapKeys(conversations') \ MapKeys(conversations) :
         LET new == MapGet(conversations', c)
         IN (new.parentId # NoId /\ MapHas(conversations, new.parentId))
            => /\ new.branchPoint # {}
               /\ \A k \in new.branchPoint :
                     0 <= k /\ k < Len(MapGet(conversations, new.parentId).messages)]_vars

\* ------------------------------------------------------- pending actions
PendingOf(agentId) == getPendingActions(pendingActions, agentId)

\* the agent store is the same before and after the step
AgentStoreUnchanged == agents' = agents /\ pendingActions' = pendingActions

\* C16 as stated: once resolvePendingAction(agent, action, r) was called, a
\* later call with the same agent and action id changes nothing in the agent
\* store, whatever happened in between.
C16_SecondResolveChangesNothing ==
    [][\A call \in resolveCalls, r \in Resolutions :
         ResolvePendingAction(call.agentId, call.actionId, r) => AgentStoreUnchanged]_vars

\* C16 amended: once resolvePendingAction(agent, action, r) was called, a later
\* call with the same agent and action id changes nothing in the agent store
\* (no queue, no status, no updatedAt), provided no action with that id was
\* added to the agent's queue after the first call.
C16_SecondResolveIsNoOp ==
    [][\A call \in resolveCalls, r \in Resolutions :
         (~call.added /\ ResolvePendingAction(call.agentId, call.actionId, r))
            => AgentStoreUnchanged]_vars

\* an action was resolved and resolvePendingAction was called for it again,
\* the agent still being there
C16_Witness ==
    \E call \in resolveCalls :
        /\ call.hit /\ call.again /\ ~call.added
        /\ MapHas(agents, call.agentId)
        /\ MapGet(agents, call.agentId).status = "idle"

\* C17: an existing agent whose queue of pending actions is not empty has
\* status waiting_approval.
C17_WaitingWhilePending ==
    \A i \in 1..Len(agents) :
        PendingOf(agents[i].key) # <<>> => agents[i].value.status = "waiting_approval"

\* C18: resolvePendingAction for an action that is in the agent's queue takes
\* the action with that id out of the queue and leaves the other actions, in
\* their order, and the other queues as they are; when the queue is empty
\* afterwards the agent's status is idle, otherwise no agent changes at all.
C18_ResolveRemovesThatAction ==
    [][\A a \in AgentIdsGiven, id \in ActionIds, r \in Resolutions :
         (/\ \E i \in 1..Len(PendingOf(a)) : PendingOf(a)[i].id = id
          /\ ResolvePendingAction(a, id, r))
            => LET left == SelectSeq(PendingOf(a), LAMBDA x : x.id # id)
               IN /\ getPendingActions(pendingActions', a) = left
                  /\ \A b \in AgentIdsGiven \ {a} :
                        getPendingActions(pendingActions', b) = PendingOf(b)
                  /\ MapKeys(agents') = MapKeys(agents)
                  /\ IF left = <<>>
                     THEN /\ MapHas(agents, a) => MapGet(agents', a).status = "idle"
                          /\ \A b \in MapKeys(agents) \ {a} :
                                MapGet(agents', b) = MapGet(agents, b)
                     ELSE agents' = agents]_vars

\* one of two pending actions was resolved: the other is still in the queue
\* and the agent still waits
C18_Witness ==
    \E call \in resolveCalls :
        /\ call.hit /\ ~call.added
        /\ MapHas(agents, call.agentId)
        /\ Len(PendingOf(call.agentId)) = 1
        /\ PendingOf(call.agentId)[1].id # call.actionId
        /\ MapGet(agents, call.agentId).status = "waiting_approval"

\* the three stores are the same before and after the step
StoresUnchanged ==
    /\ AgentStoreUnchanged
    /\ workspaces' = workspaces /\ activeWorkspaceId' = activeWorkspaceId
    /\ activeConversationId' = activeConversationId
    /\ MapKeys(conversations') = MapKeys(conversations)
    /\ \A c \in MapKeys(conversations) :
          /\ [MapGet(conversations', c) EXCEPT !.messages = <<>>]
                = [MapGet(conversations, c) EXCEPT !.messages = <<>>]
          /\ getMessages(conversations', heap', c) = getMessages(conversations, heap, c)

\* a mutation that targets an agent, a workspace or a conversation that its
\* store does not hold
MutationOfAbsent ==
    \/ \E a \in AgentIdsGiven \ MapKeys(agents) :
          \/ \E u \in AgentUpdates : UpdateAgent(a, u)
          \/ \E status \in StatusInputs : UpdateAgentStatus(a, status)
          \/ \E id \in ActionIds : AddPendingAction(a, id)
          \/ \E id \in ActionIds, r \in Resolutions : ResolvePendingAction(a, id, r)
          \/ ClearPendingActions(a)
    \/ \E w \in WorkspaceIdsGiven \ MapKeys(workspaces) :
          \/ \E u \in WorkspaceUpdates : UpdateWorkspace(w, u)
          \/ \E a \in AgentIdsGiven : AddAgentToWorkspace(w, a)
          \/ \E a \in AgentIdsGiven : RemoveAgentFromWorkspace(w, a)
    \/ \E c \in ConvInputs \ MapKeys(conversations) :
          \/ AddMessage(c, "user", <<"h">>)
          \/ \E m \in 1..nextMsgId, u \in Updates : UpdateMessage(c, m, u)
          \/ \E b \in Blocks : AppendToLastMessage(c, b)
          \/ \E i \in ContentIndexes, b \in Blocks : UpdateLastMessageContent(c, i, b)
          \/ \E title \in Titles : UpdateConversationTitle(c, title)
          \/ \E k \in FromMessageIndexes, m \in NewMessages : BranchConversation(c, k, m)

\* C19: a store mutation that targets an id its collection does not hold leaves
\* the state of the three stores as it is.
C19_AbsentTargetIsNoOp ==
    [][MutationOfAbsent => StoresUnchanged]_vars

\* ------------------------------------------------------ concurrent turns
\* C20: sendMessage for an existing agent and a text that is not blank starts
\* its turn whatever the agent's status is and whether or not another turn of
\* the agent is in flight.
C20_SendMessageStartsRegardless ==
    [][\A t \in Turns, a \in AgentIdsGiven, c \in ConvInputs :
         (MapHas(agents, a) /\ SendMessage(t, a, c, <<"h">>))
            => /\ turn'[t].pc = "setThinking"
               /\ turn'[t].agentId = a
               /\ \A other \in Turns \ {t} : turn'[other] = turn[other]]_vars

\* two turns of the same agent are in flight
C20_Witness ==
    /\ InFlight(1) /\ InFlight(2)
    /\ turn[1].agentId = turn[2].agentId
    /\ MapGet(agents, turn[1].agentId).status # "idle"

\* ------------------------------------------------------- disjoint turns
\* msgs without what the environment gave the messages: the ids of
\* crypto.randomUUID() and the times of Date.now()
Anonymous(msgs) ==
    [i \in 1..Len(msgs) |-> [msgs[i] EXCEPT !.id = NoId, !.timestamp = 0]]

\* the chunks of deltas applied one after the other to the store value cs
RECURSIVE RunChunks(_, _, _, _, _)
RunChunks(cs, conversationId, messageId, accumulatedText, deltas) ==
    IF deltas = <<>> THEN cs
    ELSE LET text == accumulatedText \o Head(deltas)
         IN RunChunks(applyChunk(cs, conversationId, messageId, text, Head(deltas), 0),
                      conversationId, messageId, text, Tail(deltas))

\* the messages turn t leaves in its conversation when it runs alone on the
\* initial store, as far as t has come
RunAlone(t) ==
    LET c == turn[t].conversationId
        userMessage == createTextMessage(1, "user", turn[t].userText, turn[t].agentId, 0)
        assistantMessage == createStreamingMessage(2, turn[t].agentId, 0)
        cs0 == [convs |-> DisjointConversations, heap |-> <<>>]
        cs1 == addMessage([cs0 EXCEPT !.heap = HeapPut(@, 1, userMessage)], c, 1, 0)
        cs2 == addMessage([cs1 EXCEPT !.heap = HeapPut(@, 2, assistantMessage)], c, 2, 0)
        cs3 == RunChunks(cs2, c, 2, <<>>, turn[t].deltas)
        cs4 == updateMessage(cs3, c, 2,
                  [metadata |-> {[streaming |-> FALSE, stopReason |-> "end_turn"]}], 0)
        cs == IF turn[t].messageId = NoId THEN cs1
              ELSE IF turn[t].pc \in {"setIdle", "done"} THEN cs4
              ELSE cs3
    IN Anonymous(getMessages(cs.convs, cs.heap, c))

\* the status turn t leaves on its agent when it runs alone
StatusAlone(t) ==
    CASE turn[t].pc = "stream" -> "streaming"
      [] turn[t].pc = "done" -> "idle"
      [] turn[t].pc = "failed" -> "error"

\* C21: a chat turn that runs next to a turn of another agent on another
\* conversation, the deltas of the two in any order, leaves on its agent the
\* status and in its conversation the messages it leaves when it runs alone.
C21_DisjointTurnsDoNotInterfere ==
    \A t \in Turns :
        \A other \in Turns \ {t} :
            (/\ turn[t].pc \in {"stream", "done", "failed"}
             /\ turn[other].agentId # turn[t].agentId
             /\ turn[other].conversationId # turn[t].conversationId)
                => /\ TurnStatus(t) = StatusAlone(t)
                   /\ Anonymous(TurnMessages(t)) = RunAlone(t)

\* both turns are over, one completed and one failed, each after all its deltas
C21_Witness ==
    /\ turn[1].pc = "done" /\ turn[2].pc = "failed"
    /\ turn[1].agentId # turn[2].agentId
    /\ turn[1].conversationId # turn[2].conversationId
    /\ \A t \in Turns : Len(turn[t].deltas) = MaxDeltas /\ Concat(turn[t].deltas) # <<>>
    /\ TurnStatus(1) = "idle" /\ TurnStatus(2) = "error"

\* ------------------------------------------------------------ workspaces
\* C22: deleteWorkspace(w) sets activeWorkspaceId to null when w is the active
\* workspace and leaves it as it is otherwise, also when w is not stored; the
\* records of the other workspaces, and their order, stay as they are.
C22_DeleteWorkspaceClearsActive ==
    [][\A w \in WorkspaceIdsGiven :
         DeleteWorkspace(w)
            => /\ activeWorkspaceId' = IF activeWorkspaceId = w THEN NoId
                                       ELSE activeWorkspaceId
               /\ workspaces' = SelectSeq(workspaces, LAMBDA x : x.key # w)]_vars

\* the first of two workspaces was deleted: the second is stored and active
C22_Witness ==
    /\ nextWorkspaceId = 3
    /\ MapKeys(workspaces) = {2}
    /\ activeWorkspaceId = 2

\* C23: no workspace's agentIds list holds the same agent id twice.
C23_AgentIdsUnique ==
    \A i \in 1..Len(workspaces) :
        \A m, n \in 1..Len(workspaces[i].value.agentIds) :
            workspaces[i].value.agentIds[m] = workspaces[i].value.agentIds[n] => m = n

\* the workspaces whose agentIds list holds agent a
OwnersOf(a) ==
    {workspaces[i].key : i \in {j \in 1..Len(workspaces) :
        \E n \in 1..Len(workspaces[j].value.agentIds) : workspaces[j].value.agentIds[n] = a}}

\* C24: each agent of the agent store is in the agentIds list of exactly one
\* workspace, the one its workspaceId names.
C24_OneOwner ==
    \A i \in 1..Len(agents) : OwnersOf(agents[i].key) = {agents[i].value.workspaceId}

\* ------------------------------------------------------- deleted agents
\* C25: once deleteAgent(a) was called (a, whose id is never given out again,
\* is not in the agents map) pendingActions has no entry for a and
\* getAllPendingActions returns no action of a, whatever was called since.
C25_DeletedAgentLeavesNoQueue ==
    \A a \in AgentIdsGiven \ MapKeys(agents) :
        /\ ~MapHas(pendingActions, a)
        /\ \A i \in 1..Len(getAllPendingActions(pendingActions)) :
              getAllPendingActions(pendingActions)[i].agentId # a

\* --------------------------------------------------------------- deletion
\* conversation d as the store holds it, its messages as values
Stored(convs, h, d) ==
    [MapGet(convs, d) EXCEPT !.messages = getMessages(convs, h, d)]

\* C26: deleteWorkspace changes neither the agent store nor the conversation
\* store, and deleteConversation(c) changes no conversation but c: the others,
\* the branches of c among them, keep their fields and their messages.
C26_DeletionDoesNotCascade ==
    [][/\ \A w \in WorkspaceIdsGiven :
            DeleteWorkspace(w)
               => /\ agents' = agents /\ pendingActions' = pendingActions
                  /\ conversations' = conversations /\ heap' = heap
                  /\ activeConversationId' = activeConversationId
       /\ \A c \in ConvInputs :
            DeleteConversation(c)
               => /\ agents' = agents /\ pendingActions' = pendingActions
                  /\ workspaces' = workspaces /\ activeWorkspaceId' = activeWorkspaceId
                  /\ MapKeys(conversations') = MapKeys(conversations) \ {c}
                  /\ \A d \in MapKeys(conversations) \ {c} :
                        Stored(conversations', heap', d) = Stored(conversations, heap, d)]_vars

\* the workspace is gone and its agent and a conversation of it are there; the
\* root conversation is gone and its branch has its parentId, its branchPoint
\* and the message it took from the root
C26_Witness ==
    /\ workspaces = <<>> /\ nextWorkspaceId = 2
    /\ \E i \in 1..Len(agents) : agents[i].value.workspaceId = 1
    /\ MapKeys(conversations) = {2}
    /\ Stored(conversations, heap, 2).workspaceId = 1
    /\ Stored(conversations, heap, 2).parentId = 1
    /\ Stored(conversations, heap, 2).branchPoint = {0}
    /\ Len(Stored(conversations, heap, 2).messages) = 1

\* ----------------------------------------------------------- persistence
\* C27: what a store writes holds its collection as the list of its (key,
\* entity) pairs in insertion order, and rehydrating what a store wrote gives
\* the collection back, with the same keys in the same order and the same
\* entities; rehydrating from persisted data that is absent, or whose
\* collection field is not a list of pairs, gives an empty collection and does
\* not throw.
C27_PersistenceRoundTrips ==
    [][/\ (PageLoad /\ storage["chat"] = InStep)
            => \A persistedState \in reads'["chat"] :
                  LET items == persistedState.fields.conversations.items
                  IN /\ [i \in 1..Len(items) |-> items[i].key]
                          = [i \in 1..Len(conversations) |-> conversations[i].key]
                     /\ \A i \in 1..Len(items) :
                           items[i].value =
                              [EntryValue(conversations[i]) EXCEPT !.messages = Deref(heap, @)]
                     /\ persistedState.fields.activeConversationId = activeConversationId
       /\ RehydrateChat
            => \A persistedState \in reads["chat"] :
                  IF persistedState \in ForeignStates
                  THEN conversations' = <<>> /\ hydration' # "threw"
                  ELSE /\ [i \in 1..Len(conversations') |-> conversations'[i].key]
                            = [i \in 1..Len(persistedState.fields.conversations.items) |->
                                  persistedState.fields.conversations.items[i].key]
                       /\ partializeChat([convs |-> conversations', heap |-> heap'],
                                         activeConversationId') = persistedState
       /\ RehydrateAgents
            => \A persistedState \in reads["agent"] \ {Absent} :
                  partializeAgents(agents', pendingActions') = persistedState
       /\ RehydrateWorkspaces
            => \A persistedState \in reads["workspace"] \ {Absent} :
                  partializeWorkspaces(workspaces', activeWorkspaceId') = persistedState]_vars

\* ------------------------------------------------------------ every delta
\* the content of the assistant message of turn t in the store value (convs, h)
AssistantContent(convs, h, t) ==
    LET messages == getMessages(convs, h, turn[t].conversationId)
    IN messages[FindMessage(messages, turn[t].messageId)].content

\* C28: a delta of a turn finds the assistant message as the store holds it at
\* that moment. When its content is not empty and ends with a text block, that
\* block's text becomes the old text followed by the delta and the blocks
\* before it stay; otherwise the content becomes one text block whose text is
\* the delta.
C28_EveryDeltaIsStored ==
    [][\A t \in Turns, chunk \in Chunks :
         (HasAssistant(t) /\ TurnChunk(t, chunk))
            => LET old == AssistantContent(conversations, heap, t)
                   new == AssistantContent(conversations', heap', t)
               IN IF Len(old) > 0 /\ old[Len(old)].type = "text"
                  THEN new = DropLast(old) \o <<TextBlock(old[Len(old)].text \o chunk)>>
                  ELSE new = <<TextBlock(chunk)>>]_vars

\* ------------------------------------------------------- message updates
\* C29: updateMessage(c, m, update) for a stored conversation c that has no
\* message with id m leaves the record of c as it is: the same fields,
\* updatedAt among them, and the same messages.
C29_UpdateOfMissingMessageIsNoOp ==
    [][\A c \in MapKeys(conversations), m \in 1..nextMsgId, u \in Updates :
         (/\ FindMessage(getMessages(conversations, heap, c), m) = 0
          /\ UpdateMessage(c, m, u))
            => Stored(conversations', heap', c) = Stored(conversations, heap, c)]_vars

\* C30: updateLastMessageContent(c, index, block) leaves the content of the
\* last message of c at its length and changes no slot but the one at index;
\* the other messages of c stay as they are.
C30_ContentKeepsItsLength ==
    [][\A c \in MapKeys(conversations), i \in ContentIndexes, b \in Blocks :
         (/\ getMessages(conversations, heap, c) # <<>>
          /\ UpdateLastMessageContent(c, i, b))
            => LET old == getMessages(conversations, heap, c)
                   new == getMessages(conversations', heap', c)
                   last == Len(old)
               IN /\ Len(new) = last
                  /\ \A n \in 1..(last - 1) : new[n] = old[n]
                  /\ Len(new[last].content) = Len(old[last].content)
                  /\ \A k \in 1..Len(old[last].content) :
                        new[last].content[k] = IF k = i + 1 THEN b ELSE old[last].content[k]]_vars

\* -------------------------------------------------- adding a pending action
\* C31: addPendingAction(action) puts the action at the end of the queue of
\* action.agentId, the earlier actions of that queue staying in their order and
\* the other queues as they are; the agent, when it exists, has status
\* waiting_approval afterwards whatever its status was, and no other agent
\* changes.
C31_AddAppendsAndForcesWaiting ==
    [][\A a \in AgentIdsGiven, id \in ActionIds :
         AddPendingAction(a, id)
            => LET queue == getPendingActions(pendingActions', a)
               IN /\ Len(queue) = Len(PendingOf(a)) + 1
                  /\ SubSeq(queue, 1, Len(PendingOf(a))) = PendingOf(a)
                  /\ queue[Len(queue)].id = id /\ queue[Len(queue)].agentId = a
                  /\ \A b \in AgentIdsGiven \ {a} :
                        getPendingActions(pendingActions', b) = PendingOf(b)
                  /\ MapKeys(agents') = MapKeys(agents)
                  /\ MapHas(agents, a) => MapGet(agents', a).status = "waiting_approval"
                  /\ \A b \in MapKeys(agents) \ {a} :
                        MapGet(agents', b) = MapGet(agents, b)]_vars

\* an action was added for an agent whose turn is streaming: the agent waits
\* for approval while the turn goes on
C31_Witness ==
    /\ turn[1].pc = "stream"
    /\ MapHas(agents, turn[1].agentId)
    /\ TurnStatus(1) = "waiting_approval"
    /\ Len(PendingOf(turn[1].agentId)) = 1

\* ------------------------------------------------------ cancelStream
\* abortControllerRef.current is the AbortController the turn of this hook made
\* at line 65 (none before that line); its signal was handed to streamText.
\* abort() raises the signal and does nothing else; sendMessage never reads the
\* signal, so what the turn does next is what the channel does next: it may
\* yield another chunk, end, or reject. setIsStreaming is state of the
\* component, not of a store.

\* cancelStream as it would be if it also reset the status of the agent
CancelStreamReset(t) ==
    /\ UICall
    /\ turn' = IF turn[t].signal = "open"
               THEN [turn EXCEPT ![t].signal = "aborted"]
               ELSE turn
    /\ agents' = updateAgentStatus(agents, turn[t].agentId, "idle", now)
    /\ Wrote(IF MapHas(agents, turn[t].agentId) THEN {"agent"} ELSE {})
    /\ UNCHANGED <<conversations, activeConversationId, heap, running, now,
                   nextConvId, nextMsgId, nextAgentId, tree, hydration, reads, env, pendingActions, workspaceStore, resolveCalls>>

\* lines 125-128
CancelStream(t) ==
    /\ UICall
    /\ turn' = IF turn[t].signal = "open"
               THEN [turn EXCEPT ![t].signal = "aborted"]
               ELSE turn
    /\ Wrote({})
    /\ UNCHANGED <<conversations, activeConversationId, heap, agents, running, now,
                   nextConvId, nextMsgId, nextAgentId, tree, hydration, reads, env, pendingActions, workspaceStore, resolveCalls>>

\* the stores after createWorkspace, createAgent and createConversation; every
\* store has written its key
InitStarted ==
    /\ conversations
          = createConversation([convs |-> <<>>, heap |-> <<>>], 1, 1, 1, NoId, {}, 0).convs
    /\ activeConversationId = 1
    /\ heap = <<>>
    /\ agents \in {createAgent(<<>>, 1, config, 0) : config \in AgentConfigs}
    /\ turn = [t \in Turns |-> NewTurn]
    /\ running = NoTurn
    /\ now = 0
    /\ nextConvId = 2
    /\ nextMsgId = 1
    /\ nextAgentId = 2
    /\ ops = 0
    /\ tree = TreeOff
    /\ pendingActions = <<>>
    /\ workspaces \in {createWorkspace(<<>>, 1, config, 0) : config \in WorkspaceConfigs}
    /\ activeWorkspaceId = 1
    /\ nextWorkspaceId = 2
    /\ resolveCalls = {}
    /\ hydration = "ok"
    /\ storage = [name \in Stores |-> InStep]
    /\ reads = [name \in Stores |-> {}]
    /\ env \in Envs

\* one chat turn that the user may cancel at any moment
CancelNext ==
    \/ Tick
    \/ \E config \in AgentConfigs : CreateAgent(config)
    \/ \E w \in WorkspaceIds : CreateConversation(w, 1, NoId, {})
    \/ \E t \in FirstTurn, a \in AgentInputs, c \in ConvInputs : SendMessage(t, a, c, <<"h">>)
    \/ \E t \in FirstTurn : TurnStep(t)
    \/ \E t \in FirstTurn : CancelStream(t)

SpecCancel == InitStarted /\ [][CancelNext]_vars

\* cancelStream has aborted the signal of the turn
Cancelled(t) == turn[t].signal = "aborted"

\* the sequence s is the beginning of r
IsPrefix(s, r) == Len(s) <= Len(r) /\ SubSeq(r, 1, Len(s)) = s

\* the turn has its assistant message and has not failed
Streaming(t) == turn[t].pc \in {"stream", "finalize", "setIdle", "done"}

\* C33: two chat turns on the same conversation, their deltas in any order:
\* the two assistant messages are different messages, and at every moment, so
\* also when both turns have completed, the assistant message of each turn
\* holds the text of the deltas of that turn in the order of their arrival, in
\* one text block, and nothing of the other turn.
C33_EachTurnWritesItsOwnMessage ==
    \A t \in Turns :
        \A other \in Turns \ {t} :
            (/\ Streaming(t)
             /\ Streaming(other)
             /\ turn[other].conversationId = turn[t].conversationId)
                => /\ turn[t].messageId # turn[other].messageId
                   /\ HasAssistant(t)
                   /\ Assistant(t).content = Streamed(turn[t].deltas)
                   /\ turn[t].deltas # <<>>
                        => /\ Len(Assistant(t).content) = 1
                           /\ Assistant(t).content[1].type = "text"
                           /\ Assistant(t).content[1].text = Concat(turn[t].deltas)

\* both turns completed on one conversation, each after two deltas of its own
C33_Witness ==
    /\ turn[1].pc = "done" /\ turn[2].pc = "done"
    /\ turn[1].conversationId = turn[2].conversationId
    /\ turn[1].deltas = << <<"a">>, <<"b">> >>
    /\ turn[2].deltas = << <<"b">>, <<"a">> >>
    /\ Assistant(1).content[1].text = <<"a", "b">>
    /\ Assistant(2).content[1].text = <<"b", "a">>

\* a call of one of the three operations of the approval queue for agent a
QueueCall(a) ==
    \/ \E id \in ActionIds : AddPendingAction(a, id)
    \/ \E id \in ActionIds, r \in Resolutions : ResolvePendingAction(a, id, r)
    \/ ClearPendingActions(a)

\* C34: while a chat turn is between its deltas and the status of its agent is
\* thinking or streaming, a call of addPendingAction, resolvePendingAction or
\* clearPendingActions for that agent leaves the status thinking or streaming.
C34_TurnStatusSurvivesQueueCalls ==
    [][\A t \in FirstTurn :
         (/\ turn[t].pc = "stream"
          /\ MapHas(agents, turn[t].agentId)
          /\ TurnStatus(t) \in {"thinking", "streaming"}
          /\ QueueCall(turn[t].agentId))
             => MapGet(agents', turn[t].agentId).status \in {"thinking", "streaming"}]_vars

\* ------------------------------------------------- a turn comes to its end
\* The event loop runs every continuation that is ready: a segment of
\* sendMessage that can run does run. The channel delivers finitely many chunks
\* (at most MaxDeltas here) and then ends or fails, after an abort as without
\* one. The calls of the user are under no obligation.
\* one turn, for the stored conversation or for one that is not stored, and
\* cancelStream at any moment
StartedNext ==
    \/ Tick
    \/ \E t \in FirstTurn, c \in 1..nextConvId : SendMessage(t, 1, c, <<"h">>)
    \/ \E t \in FirstTurn : TurnStep(t)
    \/ \E t \in FirstTurn : CancelStream(t)

SpecCancelFair ==
    /\ InitStarted
    /\ [][StartedNext]_vars
    /\ \A t \in FirstTurn : WF_vars(TurnStep(t))

Ended(t) == turn[t].pc \in {"done", "failed"}

\* every started turn ends, with one status write that is its last step
EndsWithOneStatusWrite(t) ==
    /\ Ended(t) => turn'[t].pc = turn[t].pc /\ ~TurnStep(t)
    /\ (~Ended(t) /\ turn'[t].pc = "done")
         => /\ turn[t].pc = "setIdle"
            /\ turn[t].error = ""
            /\ MapGet(agents', turn[t].agentId).status = "idle"
    /\ (~Ended(t) /\ turn'[t].pc = "failed")
         => /\ turn[t].pc = "catch"
            /\ turn[t].error # ""
            /\ MapGet(agents', turn[t].agentId).status = "error"
    /\ (InFlight(t) /\ turn'[t].pc \notin {"done", "failed"})
         => \A i \in 1..Len(agents) :
               agents'[i].value.status \in {"idle", "error"}
                  => agents'[i].value.status = agents[i].value.status

\* metadata.streaming = true.
C36_NoStreamingFlagAtRest ==
    \A c \in MapKeys(conversations) :
        (\A t \in Turns : turn[t].conversationId = c => ~InFlight(t))
           => LET messages == getMessages(conversations, heap, c)
              IN \A i \in 1..Len(messages) :
                    \A metadata \in messages[i].metadata : ~metadata.streaming

\* ------------------------------------------------ the order of messages
\* update: Partial<CodingAgentMessage>: a patch may carry any field of a
\* message, the id among them
Patches == Updates \cup {[id |-> m] : m \in 1..2}

\* the writers of messages side by side: the store operations and one chat turn
AppendNext ==
    \/ Tick
    \/ \E config \in AgentConfigs : CreateAgent(config)
    \/ \E w \in WorkspaceIds : CreateConversation(w, 1, NoId, {})
    \/ \E c \in ConvInputs : AddMessage(c, "user", <<"h">>)
    \/ \E c \in ConvInputs, m \in 1..nextMsgId, u \in Patches : UpdateMessage(c, m, u)
    \/ \E c \in ConvInputs, b \in Blocks : AppendToLastMessage(c, b)
    \/ \E c \in ConvInputs, i \in ContentIndexes, b \in Blocks :
         UpdateLastMessageContent(c, i, b)
    \/ \E c \in ConvInputs, title \in Titles : UpdateConversationTitle(c, title)
    \/ \E t \in FirstTurn, a \in AgentIdsGiven, c \in ConvInputs :
         SendMessage(t, a, c, <<"h">>)
    \/ \E t \in FirstTurn : TurnStep(t)

SpecAppend == InitHydrated /\ [][AppendNext]_vars

\* messages.map(m => m.id)
MessageIds(convs, h, c) ==
    LET messages == getMessages(convs, h, c)
    IN [i \in 1..Len(messages) |-> messages[i].id]

\* C37: in every step of addMessage, updateMessage, appendToLastMessage,
\* updateLastMessageContent, updateConversationTitle and of a chat turn, the
\* sequence of message ids of every conversation before the step is a prefix of
\* its sequence after the step.
C37_MessageIdsAppendOnly ==
    [][\A c \in MapKeys(conversations) :
         IsPrefix(MessageIds(conversations, heap, c),
                  MessageIds(conversations', heap', c))]_vars

\* C38: every call of getDescendants and of countMessagesInTree returns, on
\* every collection, those with a conversation that is its own parent and those
\* with a cycle of parentId links included: no call ends in a recursion without
\* end.
C38_DescendantsReturn ==
    [][(\E id \in TreeParents \ {NoId} : GetDescendants(id) \/ CountMessagesInTree(id))
          => tree'.pc # "overflow"]_vars

\* getAncestors: the walk from its start to its return (on a collection
\* without a cycle the loop ends)
RECURSIVE ancestorsWalk(_)
ancestorsWalk(w) == IF w.pc = "returned" THEN w.ancestors ELSE ancestorsWalk(ancestorsStep(w))

getAncestors(conversationId, convs) == ancestorsWalk(ancestorsStart(convs, conversationId))

\* C39: on a collection without a cycle (its ids distinct), for all stored
\* conversations a and d: d is in getDescendants(a) exactly when a is in
\* getAncestors(d).
C39_DescendantIffAncestor ==
    [][\A a \in IdsOf(tree.convs) :
         (Acyclic(tree.convs) /\ GetDescendants(a))
            => /\ tree'.pc = "descendants"
               /\ \A d \in IdsOf(tree.convs) :
                     d \in IdsOf(tree'.descendants)
                        <=> a \in IdsOf(getAncestors(d, tree.convs))]_vars

\* getDescendants returned a child and a grandchild of a stored conversation,
\* and that conversation is the farthest of the two ancestors of the grandchild
C39_Witness ==
    /\ tree.pc = "descendants"
    /\ Acyclic(tree.convs)
    /\ HasId(tree.convs, tree.conversationId)
    /\ Len(tree.descendants) = 2
    /\ tree.descendants[2].parentId = tree.descendants[1].id
    /\ LET ancestors == getAncestors(tree.descendants[2].id, tree.convs)
       IN /\ Len(ancestors) = 2
          /\ ancestors[1].id = tree.conversationId

\* ------------------------------------------- the active conversation
\* lines 124-126
SetActiveConversation(conversationId) ==
    /\ UICall
    /\ activeConversationId' = conversationId
    /\ Wrote({"chat"})
    /\ UNCHANGED <<conversations, heap, agents, turn, running, now, nextConvId, nextMsgId,
                   nextAgentId, tree, hydration, reads, env, pendingActions, workspaceStore, resolveCalls>>

\* lines 261-266
ClearAllConversations ==
    /\ UICall
    /\ Commit([convs |-> <<>>, heap |-> heap], turn)
    /\ activeConversationId' = NoId
    /\ Wrote({"chat"})
    /\ UNCHANGED <<agents, running, now, nextConvId, nextMsgId, nextAgentId, tree,
                   hydration, reads, env, pendingActions, workspaceStore, resolveCalls>>

\* the operations that write conversations or activeConversationId; the caller
\* of setActiveConversation names a conversation that was created, one that
\* never was, or null
ActiveNext ==
    \/ Tick
    \/ \E w \in WorkspaceIds : CreateConversation(w, 1, NoId, {})
    \/ \E c \in ConvInputs, k \in FromMessageIndexes, m \in NewMessages :
         BranchConversation(c, k, m)
    \/ \E c \in ConvInputs : DeleteConversation(c)
    \/ \E c \in 0..nextConvId : SetActiveConversation(c)
    \/ ClearAllConversations
    \/ PageLoad
    \/ Rehydrate

SpecActive == Init /\ [][ActiveNext]_vars

\* C40: in every reachable state activeConversationId is null or the id of a
\* stored conversation.
C40_ActiveConversationIsStored ==
    activeConversationId = NoId \/ MapHas(conversations, activeConversationId)
====
